---------------------------- MODULE Spec2Model ----------------------------
(***************************************************************************)
(* A model of goderive: the driver loop of main (discover, classify-and-   *)
(* add, progress check, generate, write), the naming registry the plugins  *)
(* share, and the meaning of the code the compare, copyto and equal        *)
(* generators emit, evaluated on small Go values.                          *)
(***************************************************************************)
EXTENDS Integers, Sequences, FiniteSets, TLC

(***************************************************************************)
(* Bounds of the model.                                                    *)
(***************************************************************************)
\* number of call sites in the analysed package
NumCalls == 2
\* longest slice value
MaxLen == 2

(***************************************************************************)
(* The type model: go/types objects.  A type is an object (an id); two     *)
(* objects may describe the same type, which types.Identical decides.      *)
(***************************************************************************)
TypeTable ==
  << [kind |-> "Basic",   name |-> "int"],                           \*  1
     [kind |-> "Basic",   name |-> "bool"],                          \*  2
     [kind |-> "Basic",   name |-> "string"],                        \*  3
     [kind |-> "Basic",   name |-> "byte"],                          \*  4
     [kind |-> "Pointer", elem |-> 3],                               \*  5 *string
     [kind |-> "Named",   name |-> "T", under |-> 7,
      methods |-> {}],                                               \*  6 T
     [kind |-> "Struct",  fields |-> <<1, 5>>],                      \*  7 struct{ValueA int; RefB *string}
     [kind |-> "Pointer", elem |-> 6],                               \*  8 *T
     [kind |-> "Pointer", elem |-> 6],                               \*  9 *T, another object
     [kind |-> "Slice",   elem |-> 1],                               \* 10 []int
     [kind |-> "Slice",   elem |-> 4],                               \* 11 []byte
     [kind |-> "Named",   name |-> "U", under |-> 13,
      methods |-> {"Compare", "Equal"}],                             \* 12 U
     [kind |-> "Struct",  fields |-> <<11, 2>>],                     \* 13 struct{B []byte; Ok bool}
     [kind |-> "Pointer", elem |-> 12],                              \* 14 *U
     [kind |-> "Map",     key |-> 3, elem |-> 1],                    \* 15 map[string]int
     [kind |-> "Named",   name |-> "Node", under |-> 17,
      methods |-> {}],                                               \* 16 Node
     [kind |-> "Struct",  fields |-> <<2, 18>>],                     \* 17 struct{V bool; Next *Node}
     [kind |-> "Pointer", elem |-> 16],                              \* 18 *Node
     [kind |-> "Slice",   elem |-> 5],                               \* 19 []*string
     [kind |-> "Array",   len |-> 2, elem |-> 5],                    \* 20 [2]*string
     [kind |-> "Chan",    elem |-> 1],                               \* 21 chan int
     [kind |-> "Named",   name |-> "W", under |-> 23,
      methods |-> {}],                                               \* 22 W
     [kind |-> "Struct",  fields |-> <<6, 10, 20>>],                 \* 23 struct{In T; L []int; A [2]*string}
     [kind |-> "Pointer", elem |-> 22],                              \* 24 *W
     [kind |-> "Map",     key |-> 3, elem |-> 10],                   \* 25 map[string][]int
     [kind |-> "Basic",   name |-> "invalid type"],                  \* 26 types.Typ[types.Invalid]
     [kind |-> "Named",   name |-> "V", under |-> 28,
      methods |-> {}],                                               \* 27 V
     [kind |-> "Struct",  fields |-> <<10, 20, 15>>],                \* 28 struct{L []int; A [2]*string; M map[string]int}
     [kind |-> "Pointer", elem |-> 27],                              \* 29 *V
     [kind |-> "Map",     key |-> 3, elem |-> 5],                    \* 30 map[string]*string
     [kind |-> "Slice",   elem |-> 6],                               \* 31 []T
     [kind |-> "Array",   len |-> 2, elem |-> 21],                   \* 32 [2]chan int
     [kind |-> "Named",   name |-> "X", under |-> 34,
      methods |-> {}],                                               \* 33 X
     [kind |-> "Struct",  fields |-> <<1, 32>>],                     \* 34 struct{N int; A [2]chan int}
     [kind |-> "Pointer", elem |-> 33],                              \* 35 *X
     [kind |-> "Named",   name |-> "Ints", under |-> 10,
      methods |-> {}],                                               \* 36 Ints
     [kind |-> "Pointer", elem |-> 36],                              \* 37 *Ints
     [kind |-> "Pointer", elem |-> 21],                              \* 38 *chan int
     [kind |-> "Pointer", elem |-> 7],                               \* 39 *struct{ValueA int; RefB *string}
     [kind |-> "Named",   name |-> "Y", under |-> 7,
      methods |-> {"Compare", "CopyTo", "Equal"}],                   \* 40 Y
     [kind |-> "Pointer", elem |-> 40],                              \* 41 *Y
     [kind |-> "Struct",  fields |-> <<40, 41, 45>>],                \* 42 struct{F Y; P *Y; K K}
     [kind |-> "Named",   name |-> "Holder", under |-> 42,
      methods |-> {}],                                               \* 43 Holder
     [kind |-> "Pointer", elem |-> 43],                              \* 44 *Holder
     [kind |-> "Named",   name |-> "K", under |-> 46,
      methods |-> {"Compare", "CopyTo", "Equal"}],                   \* 45 K
     [kind |-> "Struct",  fields |-> <<1, 2>>],                      \* 46 struct{N int; Ok bool}
     [kind |-> "Pointer", elem |-> 45],                              \* 47 *K
     [kind |-> "Slice",   elem |-> 10],                              \* 48 [][]int
     [kind |-> "Slice",   elem |-> 48],                              \* 49 [][][]int
     [kind |-> "Map",     key |-> 5, elem |-> 1],                    \* 50 map[*string]int
     [kind |-> "Named",   name |-> "S", under |-> 52, inPkg |-> TRUE,
      methods |-> {}],                                               \* 51 S
     [kind |-> "Struct",  fields |-> <<10, 19>>],                    \* 52 struct{L []int; P []*string}
     [kind |-> "Pointer", elem |-> 51],                              \* 53 *S
     [kind |-> "Named",   name |-> "ATo", under |-> 1, inPkg |-> TRUE,
      methods |-> {}],                                               \* 54 ATo
     [kind |-> "Named",   name |-> "B", under |-> 1, inPkg |-> TRUE,
      methods |-> {}],                                               \* 55 B
     [kind |-> "Named",   name |-> "A", under |-> 1, inPkg |-> TRUE,
      methods |-> {}],                                               \* 56 A
     [kind |-> "Named",   name |-> "ToB", under |-> 1, inPkg |-> TRUE,
      methods |-> {}],                                               \* 57 ToB
     [kind |-> "Map",     key |-> 54, elem |-> 55],                  \* 58 map[ATo]B
     [kind |-> "Map",     key |-> 56, elem |-> 57],                  \* 59 map[A]ToB
     [kind |-> "Named",   name |-> "SliceOfint", under |-> 1, inPkg |-> TRUE,
      methods |-> {}],                                               \* 60 SliceOfint
     [kind |-> "Pointer", elem |-> 54],                              \* 61 *ATo
     [kind |-> "Pointer", elem |-> 55],                              \* 62 *B
     [kind |-> "Pointer", elem |-> 56],                              \* 63 *A
     [kind |-> "Pointer", elem |-> 57],                              \* 64 *ToB
     [kind |-> "Pointer", elem |-> 60]                               \* 65 *SliceOfint
  >>

TypeIds == 1..Len(TypeTable)

\* the nil types.Type that TypeOf returns for an expression it could not type
NilType == 0

Kind(t) == TypeTable[t].kind

RECURSIVE Identical(_, _)
Identical(a, b) ==
  IF a = b THEN TRUE
  ELSE IF Kind(a) # Kind(b) THEN FALSE
  ELSE CASE Kind(a) = "Basic"   -> TypeTable[a].name = TypeTable[b].name
         [] Kind(a) = "Named"   -> TypeTable[a].name = TypeTable[b].name
         [] Kind(a) = "Pointer" -> Identical(TypeTable[a].elem, TypeTable[b].elem)
         [] Kind(a) = "Slice"   -> Identical(TypeTable[a].elem, TypeTable[b].elem)
         [] Kind(a) = "Chan"    -> Identical(TypeTable[a].elem, TypeTable[b].elem)
         [] Kind(a) = "Array"   -> /\ TypeTable[a].len = TypeTable[b].len
                                   /\ Identical(TypeTable[a].elem, TypeTable[b].elem)
         [] Kind(a) = "Map"     -> /\ Identical(TypeTable[a].key, TypeTable[b].key)
                                   /\ Identical(TypeTable[a].elem, TypeTable[b].elem)
         [] Kind(a) = "Struct"  ->
              LET fa == TypeTable[a].fields
                  fb == TypeTable[b].fields
              IN /\ Len(fa) = Len(fb)
                 /\ \A i \in 1..Len(fa) : Identical(fa[i], fb[i])
         [] OTHER -> FALSE

\* typeName of helper.go: the label of a type, here a sequence of the
\* strings the code concatenates
RECURSIVE typeName(_)
typeName(t) ==
  CASE Kind(t) = "Pointer" -> <<"PtrTo">> \o typeName(TypeTable[t].elem)
    [] Kind(t) = "Array"   -> <<"Array", ToString(TypeTable[t].len), "Of">>
                              \o typeName(TypeTable[t].elem)
    [] Kind(t) = "Slice"   -> <<"SliceOf">> \o typeName(TypeTable[t].elem)
    [] Kind(t) = "Map"     -> <<"MapOf">> \o typeName(TypeTable[t].key)
                              \o <<"To">> \o typeName(TypeTable[t].elem)
    [] Kind(t) \in {"Basic", "Named"} -> <<TypeTable[t].name>>
    [] Kind(t) = "Chan"    -> <<"chan">> \o typeName(TypeTable[t].elem)
    [] OTHER -> <<"struct">>


\* a type the model needs an object for when the code builds one with
\* types.NewPointer
PointerTo(t) ==
  CHOOSE p \in TypeIds : Kind(p) = "Pointer" /\ TypeTable[p].elem = t

Underlying(t) == IF Kind(t) = "Named" THEN TypeTable[t].under ELSE t

HasMethod(t, m) == Kind(t) = "Named" /\ m \in TypeTable[t].methods

(***************************************************************************)
(* Call sites and Call.HasUndefined (derive/find.go).                      *)
(***************************************************************************)
InvalidType == CHOOSE t \in TypeIds :
                 Kind(t) = "Basic" /\ TypeTable[t].name = "invalid type"

\* a HasUndefined that knows the nil type only
HasUndefinedNilOnly(args) ==
  \E i \in 1..Len(args) : args[i] = NilType

HasUndefined(args) ==
  \E i \in 1..Len(args) :
     \/ args[i] = NilType
     \/ args[i] = InvalidType

\* strings.HasPrefix on names written as sequences of strings
HasPrefix(name, prefix) ==
  /\ Len(prefix) <= Len(name)
  /\ SubSeq(name, 1, Len(prefix)) = prefix

(***************************************************************************)
(* The state of the model.                                                 *)
(***************************************************************************)
VARIABLES
  autoname,      \* flag -autoname
  dedup,         \* flag -dedup
  funcNames,     \* names of the user's functions
  calls,         \* the call sites as written on disk
  callNames,     \* call.Expr.Fun of each call site in the loaded program
  pc,            \* where main is
  ungenerated,   \* main's ungenerated
  idx,           \* next call site of the file
  notgenerated,  \* main's notgenerated, as call site indices
  changed,       \* main's changed
  typesmaps,     \* the registry of each plugin
  printer,       \* the function bodies printed in this pass
  derivedFile,   \* derived.gen.go on disk
  wrotePass,     \* derived.gen.go was written in this pass
  rewrote,       \* a caller source file was opened for writing
  addLog,        \* every name an Add has returned in this run
  fatalBy,       \* why the run ended
  fatalLog,      \* the calls that the no-progress report has named
  eqPc,          \* where generateEqual is
  eqCalls,       \* the calls handed to generateEqual
  eqMap,         \* generateEqual's typesMap
  eqPrinter,     \* the functions generateEqual has printed
  evalOp,        \* the derived function under evaluation
  evalTyp,       \* the type it was derived for
  evalX,         \* its first argument
  evalY,         \* its second argument
  evalOut        \* what the call produced

(***************************************************************************)
(* The generators of main, in their fixed order, and their prefixes.       *)
(***************************************************************************)
generators == <<"compare", "copyto">>

GenNames == {generators[i] : i \in 1..Len(generators)}

\* the prefix a generator is made with
DefaultPrefix(g) ==
  CASE g = "compare"  -> <<"deriveCompare">>
    [] g = "copyto"   -> <<"deriveCopyTo">>
    [] g = "gostring" -> <<"deriveGoString">>

\* the prefix of a generator after main has handed it the flag
\* <name>.prefix, whose default is the prefix it is made with; the flags
\* of a run that sets them are in evalX
GetPrefix(g) ==
  IF evalOp = "flags" THEN evalX[g] ELSE DefaultPrefix(g)

(***************************************************************************)
(* The naming and memoization registry (derive.TypesMap).  An entry is     *)
(* [typ, name, generated]; entries are found by types.Identical.           *)
(***************************************************************************)
NewTypesMap == <<>>

Lookup(reg, typ) ==
  IF \E i \in 1..Len(reg) : Identical(reg[i].typ, typ)
  THEN CHOOSE i \in 1..Len(reg) :
         /\ Identical(reg[i].typ, typ)
         /\ \A j \in 1..(i - 1) : ~Identical(reg[j].typ, typ)
  ELSE 0

\* the canonical name of a function: <prefix><label of the type>
CanonName(g, typ) == GetPrefix(g) \o typeName(typ)

\* Reserve: [err, name, reg].  A name that collides with a user function
\* is an error, or gets a suffix when autoname is set.
SetFuncName(reg, g, requested, typ, users, auto) ==
  LET i == Lookup(reg, typ)
      canon == CanonName(g, typ)
  IN IF i # 0
     THEN [err |-> FALSE, name |-> reg[i].name, reg |-> reg]
     ELSE IF canon \in users /\ ~auto
     THEN [err |-> TRUE, name |-> <<>>, reg |-> reg]
     ELSE LET name == IF canon \in users THEN canon \o <<"_">> ELSE canon
          IN [err |-> FALSE, name |-> name,
              reg |-> Append(reg, [typ |-> typ, name |-> name,
                                   generated |-> FALSE])]

\* GetFuncName: the name of a type's function, registered as pending work
\* when the registry does not know the type yet
GetFuncName(reg, g, typ) ==
  IF Lookup(reg, typ) # 0 THEN reg
  ELSE Append(reg, [typ |-> typ, name |-> CanonName(g, typ),
                    generated |-> FALSE])

NameIn(reg, typ) == reg[Lookup(reg, typ)].name

Generating(reg, typ) ==
  [reg EXCEPT ![Lookup(reg, typ)].generated = TRUE]

ToGenerate(reg) ==
  SelectSeq(reg, LAMBDA e : ~e.generated)

Done(reg) == ToGenerate(reg) = <<>>

(***************************************************************************)
(* Add of the plugins.                                                     *)
(***************************************************************************)
AddCompare(reg, name, typs, users, auto) ==
  IF Len(typs) # 2
  THEN [err |-> TRUE, name |-> <<>>, reg |-> reg]
  ELSE IF ~Identical(typs[1], typs[2])
  THEN [err |-> TRUE, name |-> <<>>, reg |-> reg]
  ELSE SetFuncName(reg, "compare", name, typs[1], users, auto)

\* an Add that hands back the name the call site asked for
AddCopyToRequested(reg, name, typs, users, auto) ==
  [err  |-> FALSE,
   name |-> name,
   reg  |-> SetFuncName(reg, "copyto", name, typs[1], users, auto).reg]

AddCopyTo(reg, name, typs, users, auto) ==
  IF Len(typs) # 2
  THEN [err |-> TRUE, name |-> <<>>, reg |-> reg]
  ELSE IF ~Identical(typs[1], typs[2])
  THEN [err |-> TRUE, name |-> <<>>, reg |-> reg]
  ELSE SetFuncName(reg, "copyto", name, typs[1], users, auto)

PluginAdd(g, reg, name, typs, users, auto) ==
  IF g = "compare" THEN AddCompare(reg, name, typs, users, auto)
  ELSE AddCopyTo(reg, name, typs, users, auto)

(***************************************************************************)
(* What generating a function body does to the registry: the helper        *)
(* functions whose names the generator asks for (GetFuncName), and whether *)
(* the walk over the type ends in an error or a panic.                     *)
(*   [err |-> "" | "error" | "panic", helpers |-> <<type, ...>>]           *)
(***************************************************************************)
Walked(helpers) == [err |-> "", helpers |-> helpers]

WalkError == [err |-> "error", helpers |-> <<>>]

RECURSIVE CmpFieldGen(_)
RECURSIVE CopyFieldGen(_)
RECURSIVE CopyStmtGen(_)

\* the walks rs of several parts in order, ending at the first that fails
RECURSIVE WalkAll(_, _)
WalkAll(rs, acc) ==
  IF rs = <<>> THEN Walked(acc)
  ELSE IF Head(rs).err # ""
  THEN [err |-> Head(rs).err, helpers |-> acc \o Head(rs).helpers]
  ELSE WalkAll(Tail(rs), acc \o Head(rs).helpers)

\* the walks of the fields fs of a struct by compare.field
CmpFieldsGen(fs) == [i \in 1..Len(fs) |-> CmpFieldGen(fs[i])]

\* the walks of the fields fs of a struct by genField of copyto
CopyFieldsGen(fs) == [i \in 1..Len(fs) |-> CopyFieldGen(fs[i])]

hasCompareMethod(t) == HasMethod(t, "Compare")

\* compare.field
CmpFieldGen(ft) ==
  CASE Kind(ft) = "Basic" ->
         IF TypeTable[ft].name = "string" THEN Walked(<<>>) ELSE Walked(<<ft>>)
    [] Kind(ft) = "Pointer" ->
         IF Kind(TypeTable[ft].elem) = "Named" /\ hasCompareMethod(TypeTable[ft].elem)
         THEN Walked(<<>>)
         ELSE Walked(<<ft>>)
    [] Kind(ft) \in {"Array", "Map"} -> Walked(<<ft>>)
    [] Kind(ft) = "Slice" ->
         IF Kind(TypeTable[ft].elem) = "Basic" /\ TypeTable[TypeTable[ft].elem].name = "byte"
         THEN Walked(<<>>)
         ELSE Walked(<<ft>>)
    [] Kind(ft) = "Named" ->
         IF hasCompareMethod(ft) THEN Walked(<<>>)
         ELSE CmpFieldGen(PointerTo(ft))
    [] OTHER -> WalkError

\* compare.genStatement (the registrations in the keys and sort plugins
\* that a map asks for are outside this model)
CmpStmtGen(t) ==
  CASE Kind(t) = "Pointer" ->
         LET ref == TypeTable[t].elem
         IN IF Kind(ref) # "Named" THEN Walked(<<ref>>)
            ELSE IF Kind(Underlying(ref)) # "Struct"
            THEN [err |-> "panic", helpers |-> <<>>]
            ELSE WalkAll(CmpFieldsGen(TypeTable[Underlying(ref)].fields), <<>>)
    [] Kind(t) = "Basic" -> Walked(<<>>)
    [] Kind(t) = "Named" -> CmpFieldGen(PointerTo(t))
    [] Kind(t) \in {"Slice", "Array"} -> CmpFieldGen(TypeTable[t].elem)
    [] Kind(t) = "Map" ->
         WalkAll(CmpFieldsGen(<<TypeTable[t].elem, TypeTable[t].key>>), <<>>)
    [] OTHER -> WalkError

RECURSIVE canCopy(_)
canCopy(tt) ==
  LET t == Underlying(tt)
  IN CASE Kind(t) = "Basic" -> TRUE
       [] Kind(t) = "Struct" ->
            \A i \in 1..Len(TypeTable[t].fields) : canCopy(TypeTable[t].fields[i])
       [] Kind(t) = "Array" -> canCopy(TypeTable[t].elem)
       [] OTHER -> FALSE

hasCopyToMethod(t) == HasMethod(t, "CopyTo")

\* copyto gen.genField
CopyFieldGen(ft) ==
  IF canCopy(ft) THEN Walked(<<>>)
  ELSE LET typ == Underlying(ft)
       IN CASE Kind(typ) = "Pointer" ->
                 LET ref == TypeTable[typ].elem
                 IN IF Kind(ref) = "Named" /\ hasCopyToMethod(ref) THEN Walked(<<>>)
                    ELSE IF canCopy(ref) THEN Walked(<<>>)
                    ELSE Walked(<<typ>>)
            [] Kind(typ) = "Array" ->
                 \* the error of genStatement is dropped here
                 Walked(CopyStmtGen(ft).helpers)
            [] Kind(typ) = "Slice" ->
                 IF canCopy(TypeTable[typ].elem) THEN Walked(<<>>) ELSE Walked(<<typ>>)
            [] Kind(typ) = "Map" -> Walked(<<typ>>)
            [] Kind(typ) = "Struct" ->
                 IF Kind(ft) = "Named" /\ hasCopyToMethod(ft) THEN Walked(<<>>)
                 ELSE Walked(<<ft>>)
            [] OTHER -> WalkError

\* copyto gen.genStatement
CopyStmtGen(t) ==
  IF canCopy(t) THEN Walked(<<>>)
  ELSE LET ttyp == Underlying(t)
       IN CASE Kind(ttyp) = "Pointer" ->
                 LET ref == TypeTable[ttyp].elem
                 IN IF Kind(Underlying(ref)) # "Struct" THEN CopyFieldGen(ref)
                    ELSE IF Kind(ref) = "Named"
                    THEN WalkAll(CopyFieldsGen(TypeTable[Underlying(ref)].fields), <<>>)
                    ELSE WalkError
            [] Kind(ttyp) = "Slice" ->
                 IF canCopy(TypeTable[ttyp].elem) THEN Walked(<<>>)
                 ELSE CopyFieldGen(TypeTable[ttyp].elem)
            [] Kind(ttyp) = "Array" -> CopyFieldGen(TypeTable[ttyp].elem)
            [] Kind(ttyp) = "Map" ->
                 IF canCopy(TypeTable[ttyp].key)
                 THEN CopyFieldGen(TypeTable[ttyp].elem)
                 ELSE WalkAll(CopyFieldsGen(<<TypeTable[ttyp].key,
                                                TypeTable[ttyp].elem>>), <<>>)
            [] OTHER -> WalkError

\* gostring gen.genField: a pointer, and the element of a slice or an
\* array that is not written as a basic type, go to a helper
GoStringFieldGen(ft) ==
  LET typ == Underlying(ft)
  IN CASE Kind(typ) = "Basic"   -> Walked(<<>>)
       [] Kind(typ) = "Pointer" -> Walked(<<typ>>)
       [] Kind(typ) \in {"Slice", "Array"} ->
            IF Kind(TypeTable[typ].elem) = "Basic" THEN Walked(<<>>)
            ELSE Walked(<<TypeTable[typ].elem>>)
       [] OTHER -> WalkError

\* the walks of the fields fs of a struct by genField of gostring
GoStringFieldsGen(fs) == [i \in 1..Len(fs) |-> GoStringFieldGen(fs[i])]

\* gostring gen.genStatement (every field of the model's structs is
\* exported)
GoStringStmtGen(t) ==
  LET ttyp == Underlying(t)
  IN CASE Kind(ttyp) = "Basic" -> Walked(<<>>)
       [] Kind(ttyp) = "Pointer" ->
            LET ref == TypeTable[ttyp].elem
            IN IF Kind(Underlying(ref)) # "Struct"
               THEN \* the error of genField is dropped here
                    Walked(GoStringFieldGen(ref).helpers)
               ELSE IF Kind(ref) = "Named"
               THEN WalkAll(GoStringFieldsGen(TypeTable[Underlying(ref)].fields), <<>>)
               ELSE \* neither branch: nothing is printed for the struct
                    Walked(<<>>)
       [] OTHER -> WalkError

StmtGen(g, t) ==
  CASE g = "compare"  -> CmpStmtGen(t)
    [] g = "copyto"   -> CopyStmtGen(t)
    [] g = "gostring" -> GoStringStmtGen(t)

(***************************************************************************)
(* Generate.  The state threaded through a round of generation is          *)
(*   [tms |-> the registries, pr |-> the printer, err |-> "" or the end]   *)
(***************************************************************************)
RECURSIVE GetFuncNames(_, _, _)
GetFuncNames(reg, g, typs) ==
  IF typs = <<>> THEN reg
  ELSE \* reg1 is worked out once
       CHOOSE r \in {GetFuncNames(reg1, g, Tail(typs)) :
                       reg1 \in {GetFuncName(reg, g, Head(typs))}} : TRUE

\* a genFunc that does not mark the type as being generated
genFuncUnmarked(g, typ, st) ==
  [st EXCEPT !.tms[g] = GetFuncNames(@, g, StmtGen(g, typ).helpers),
             !.pr     = Append(@, [gen |-> g, typ |-> typ]),
             !.err    = StmtGen(g, typ).err]

\* genFunc: mark the type as being generated, print the function, walk
\* the type
genFunc(g, typ, st) ==
  [st EXCEPT !.tms[g] = GetFuncNames(Generating(@, typ), g,
                                     StmtGen(g, typ).helpers),
             !.pr     = Append(@, [gen |-> g, typ |-> typ]),
             !.err    = StmtGen(g, typ).err]

RECURSIVE GenerateList(_, _, _)
GenerateList(g, todo, st) ==
  IF todo = <<>> \/ st.err # "" THEN st
  ELSE CHOOSE r \in {GenerateList(g, Tail(todo), st1) :
                       st1 \in {genFunc(g, Head(todo).typ, st)}} : TRUE

\* Generate of one plugin: every type that is registered and not generated
Generate(g, st) == GenerateList(g, ToGenerate(st.tms[g]), st)

\* one round of the drain loop of main: Generate of every plugin in order
RECURSIVE GenerateAll(_, _)
GenerateAll(gs, st) ==
  IF gs = <<>> \/ st.err # "" THEN st
  ELSE CHOOSE r \in {GenerateAll(Tail(gs), st1) :
                       st1 \in {Generate(Head(gs), st)}} : TRUE

(***************************************************************************)
(* The package under analysis: its call sites to undefined or derived      *)
(* functions, in the order the finder returns them.                        *)
(***************************************************************************)
CallMenu ==
  { [name |-> <<"deriveCompare", "PtrTo", "T">>,    args |-> <<8, 9>>],
    [name |-> <<"deriveCompare">>,                  args |-> <<9, 9>>],
    [name |-> <<"deriveCopyTo", "PtrTo", "T">>,     args |-> <<8, 8>>],
    [name |-> <<"deriveCopyTo">>,                   args |-> <<9, 8>>],
    [name |-> <<"deriveCompare", "PtrTo", "T">>,    args |-> <<8, 10>>],
    [name |-> <<"deriveCompare", "PtrTo", "Node">>, args |-> <<18, 18>>],
    [name |-> <<"deriveCompare", "SliceOf", "PtrTo", "string">>,
                                                    args |-> <<19, 19>>],
    [name |-> <<"deriveCopyTo", "PtrTo", "W">>,     args |-> <<24, 24>>],
    [name |-> <<"foo">>,                            args |-> <<1>>] }

\* what the type checker may say of a call's first argument in one pass
Inference == {"typed", "nil", "invalid"}

Inferred(args, k) ==
  CASE k = "typed"   -> args
    [] k = "nil"     -> <<NilType>> \o Tail(args)
    [] k = "invalid" -> <<InvalidType>> \o Tail(args)

\* the sets of user function names a package of the model may define
UserFuncMenu == { {}, {<<"deriveCompare", "PtrTo", "T">>} }

dvars == <<autoname, dedup, funcNames, calls, callNames, pc,
           ungenerated, idx, notgenerated, changed, typesmaps, printer,
           derivedFile, wrotePass, rewrote, addLog, fatalBy, fatalLog>>

evars == <<eqPc, eqCalls, eqMap, eqPrinter>>

xvars == <<evalOp, evalTyp, evalX, evalY, evalOut>>

vars == <<dvars, evars, xvars>>

\* the parts of the model that a behaviour does not run
DriverIdle ==
  /\ autoname = FALSE
  /\ dedup = FALSE
  /\ funcNames = {}
  /\ calls = <<>>
  /\ callNames = <<>>
  /\ pc = "off"
  /\ ungenerated = -1
  /\ idx = 1
  /\ notgenerated = <<>>
  /\ changed = FALSE
  /\ typesmaps = [g \in GenNames |-> NewTypesMap]
  /\ printer = <<>>
  /\ derivedFile = [exists |-> FALSE, funcs |-> <<>>]
  /\ wrotePass = FALSE
  /\ rewrote = FALSE
  /\ addLog = {}
  /\ fatalBy = ""
  /\ fatalLog = <<>>

EqIdle ==
  /\ eqPc = "off"
  /\ eqCalls = <<>>
  /\ eqMap = <<>>
  /\ eqPrinter = <<>>

EvalIdle ==
  /\ evalOp = "off"
  /\ evalTyp = NilType
  /\ evalX = <<>>
  /\ evalY = <<>>
  /\ evalOut = <<>>

DriverInit ==
  /\ autoname \in BOOLEAN
  /\ dedup \in BOOLEAN
  /\ funcNames \in UserFuncMenu
  /\ calls \in [1..NumCalls -> CallMenu]
  /\ \A i \in 1..NumCalls : calls[i].name \notin funcNames
  /\ callNames = [i \in 1..NumCalls |-> calls[i].name]
  /\ pc = "load"
  /\ ungenerated = -1
  /\ idx = 1
  /\ notgenerated = <<>>
  /\ changed = FALSE
  /\ typesmaps = [g \in GenNames |-> NewTypesMap]
  /\ printer = <<>>
  /\ derivedFile = [exists |-> FALSE, funcs |-> <<>>]
  /\ wrotePass = FALSE
  /\ rewrote = FALSE
  /\ addLog = {}
  /\ fatalBy = ""
  /\ fatalLog = <<>>

\* a loop condition that also stops at one unresolved call
LoopAgainAboveOne(u) == u # 0 /\ u # 1

\* the loop condition of the pass loop
LoopAgain(u) == u # 0

\* the top of a pass: reload, new printer, new registries and plugins
LoadPass ==
  /\ pc = "load"
  /\ LoopAgain(ungenerated)
  /\ pc' = "classify"
  /\ callNames' = [i \in 1..Len(calls) |-> calls[i].name]
  /\ typesmaps' = [g \in GenNames |-> NewTypesMap]
  /\ printer' = <<>>
  /\ notgenerated' = <<>>
  /\ idx' = 1
  /\ changed' = FALSE
  /\ wrotePass' = FALSE
  /\ UNCHANGED <<autoname, dedup, funcNames, calls, ungenerated,
                 derivedFile, rewrote, addLog, fatalBy>>
  /\ UNCHANGED fatalLog
  /\ UNCHANGED <<evars, xvars>>

\* the pass loop ends
Finish ==
  /\ pc = "load"
  /\ ~LoopAgain(ungenerated)
  /\ pc' = "done"
  /\ UNCHANGED <<autoname, dedup, funcNames, calls, callNames,
                 ungenerated, idx, notgenerated, changed, typesmaps,
                 printer, derivedFile, wrotePass, rewrote, addLog, fatalBy>>
  /\ UNCHANGED fatalLog
  /\ UNCHANGED <<evars, xvars>>

\* the last generator whose prefix the name starts with, 0 if none
LastGenerator(name) ==
  IF \E m \in 1..Len(generators) : HasPrefix(name, GetPrefix(generators[m]))
  THEN CHOOSE m \in 1..Len(generators) :
         /\ HasPrefix(name, GetPrefix(generators[m]))
         /\ \A k \in (m + 1)..Len(generators) : ~HasPrefix(name, GetPrefix(generators[k]))
  ELSE 0

\* the first generator whose prefix the name starts with, 0 if none
FirstGenerator(name) ==
  IF \E m \in 1..Len(generators) : HasPrefix(name, GetPrefix(generators[m]))
  THEN CHOOSE m \in 1..Len(generators) :
         /\ HasPrefix(name, GetPrefix(generators[m]))
         /\ \A k \in 1..(m - 1) : ~HasPrefix(name, GetPrefix(generators[k]))
  ELSE 0

\* a main that renames whatever the flags say
MayRenameAlways(auto, dd) == TRUE

\* may main rename a call site
MayRename(auto, dd) == auto \/ dd

\* the body of the loop over the calls of the file, for one call of which
\* the type checker says k
Classify(k) ==
  /\ pc = "classify"
  /\ idx <= Len(calls)
  /\   LET args == Inferred(calls[idx].args, k)
           name == callNames[idx]
           m    == FirstGenerator(name)
       IN IF HasUndefined(args) \/ m = 0
          THEN /\ notgenerated' = Append(notgenerated, idx)
               /\ idx' = idx + 1
               /\ UNCHANGED <<pc, callNames, changed, typesmaps, addLog, fatalBy>>
          ELSE LET g == generators[m]
                   r == PluginAdd(g, typesmaps[g], name, args, funcNames, autoname)
               IN IF r.err
                  THEN /\ pc' = "fatal"
                       /\ fatalBy' = "add"
                       /\ UNCHANGED <<idx, notgenerated, callNames, changed,
                                      typesmaps, addLog>>
                  ELSE /\ typesmaps' = [typesmaps EXCEPT ![g] = r.reg]
                       /\ addLog' = addLog \cup
                                      {[gen |-> g, typ |-> args[1], name |-> r.name]}
                       /\ IF r.name # name /\ ~MayRename(autoname, dedup)
                          THEN /\ pc' = "panic"
                               /\ fatalBy' = "rename"
                               /\ UNCHANGED <<idx, notgenerated, callNames, changed>>
                          ELSE /\ changed' = (changed \/ r.name # name)
                               /\ callNames' = [callNames EXCEPT ![idx] = r.name]
                               /\ idx' = idx + 1
                               /\ UNCHANGED <<pc, notgenerated, fatalBy>>
  /\ UNCHANGED <<autoname, dedup, funcNames, calls, ungenerated,
                 printer, derivedFile, wrotePass, rewrote>>
  /\ UNCHANGED fatalLog
  /\ UNCHANGED <<evars, xvars>>

\* a call of a package whose types the checker infers or not
ClassifyCall == \E k \in Inference : Classify(k)

\* the end of the file: it is written back when a call was renamed
EndOfFile ==
  /\ pc = "classify"
  /\ idx > Len(calls)
  /\ IF changed
     THEN /\ calls' = [i \in 1..Len(calls) |-> [calls[i] EXCEPT !.name = callNames[i]]]
          /\ rewrote' = TRUE
     ELSE UNCHANGED <<calls, rewrote>>
  /\ pc' = "check"
  /\ UNCHANGED <<autoname, dedup, funcNames, callNames, ungenerated,
                 idx, notgenerated, changed, typesmaps, printer, derivedFile,
                 wrotePass, addLog, fatalBy>>
  /\ UNCHANGED fatalLog
  /\ UNCHANGED <<evars, xvars>>

\* a no-progress test that does not look at the previous count
NoProgressAnyCount(u, n) == n > 0

\* the no-progress test of main
NoProgress(u, n) == n > 0 /\ u = n

\* the calls that `for _, c := range ng { log.Fatalf(...) }` names: log.Fatalf
\* ends the process, so the body of the loop runs once
FatalfEach(ng) == IF ng = <<>> THEN <<>> ELSE <<Head(ng)>>

CheckProgress ==
  /\ pc = "check"
  /\ IF NoProgress(ungenerated, Len(notgenerated))
     THEN /\ pc' = "fatal"
          /\ fatalBy' = "noprogress"
          /\ fatalLog' = FatalfEach(notgenerated)
          /\ UNCHANGED ungenerated
     ELSE /\ ungenerated' = Len(notgenerated)
          /\ pc' = "generate"
          /\ UNCHANGED <<fatalBy, fatalLog>>
  /\ UNCHANGED <<autoname, dedup, funcNames, calls, callNames, idx,
                 notgenerated, changed, typesmaps, printer, derivedFile,
                 wrotePass, rewrote, addLog>>
  /\ UNCHANGED <<evars, xvars>>

\* a drain loop that goes on to the write after a failed Generate
AfterGenerateIgnoringError(err, alldone) ==
  IF alldone \/ err # "" THEN "write" ELSE "generate"

\* where main goes after a round of Generate calls: log.Fatal on an error,
\* the write when every plugin is done, another round otherwise
AfterGenerate(err, alldone) ==
  IF err = "error" THEN "fatal"
  ELSE IF err = "panic" THEN "panic"
  ELSE IF alldone THEN "write" ELSE "generate"

\* one round of the drain loop
GenerateRound ==
  /\ pc = "generate"
  /\ \E st \in {GenerateAll(generators,
                             [tms |-> typesmaps, pr |-> printer, err |-> ""])} :
        /\ typesmaps' = st.tms
        /\ printer' = st.pr
        /\ pc' = AfterGenerate(st.err, \A g \in GenNames : Done(st.tms[g]))
        /\ fatalBy' = IF st.err # "" THEN "generate" ELSE fatalBy
  /\ UNCHANGED <<autoname, dedup, funcNames, calls, callNames,
                 ungenerated, idx, notgenerated, changed, derivedFile,
                 wrotePass, rewrote, addLog>>
  /\ UNCHANGED fatalLog
  /\ UNCHANGED <<evars, xvars>>

\* the end of a pass: derived.gen.go is written when something was printed
WriteDerived ==
  /\ pc = "write"
  /\ IF printer # <<>>
     THEN /\ derivedFile' = [exists |-> TRUE, funcs |-> printer]
          /\ wrotePass' = TRUE
     ELSE UNCHANGED <<derivedFile, wrotePass>>
  /\ pc' = "load"
  /\ UNCHANGED <<autoname, dedup, funcNames, calls, callNames,
                 ungenerated, idx, notgenerated, changed, typesmaps, printer,
                 rewrote, addLog, fatalBy>>
  /\ UNCHANGED fatalLog
  /\ UNCHANGED <<evars, xvars>>

(***************************************************************************)
(* generateEqual, the equal generator that works on a list of calls with   *)
(* a typesMap of [typ, generated] entries found by types.Identical.        *)
(***************************************************************************)
eqFuncPrefix == <<"deriveEqual">>

EqGet(m, typ) ==
  \E i \in 1..Len(m) : Identical(m[i].typ, typ) /\ m[i].generated

EqSet(m, typ, b) ==
  IF \E i \in 1..Len(m) : Identical(m[i].typ, typ)
  THEN [i \in 1..Len(m) |->
          IF Identical(m[i].typ, typ) THEN [m[i] EXCEPT !.generated = b]
          ELSE m[i]]
  ELSE Append(m, [typ |-> typ, generated |-> b])

EqList(m) == [i \in 1..Len(m) |-> m[i].typ]

RECURSIVE isComparable(_)
isComparable(tt) ==
  LET t == Underlying(tt)
  IN CASE Kind(t) = "Basic" -> TRUE
       [] Kind(t) = "Struct" ->
            \A i \in 1..Len(TypeTable[t].fields) :
               isComparable(TypeTable[t].fields[i])
       [] Kind(t) = "Array" -> isComparable(TypeTable[t].elem)
       [] OTHER -> FALSE

\* equal.field: the types it registers in the typesMap
RECURSIVE EqFieldGen(_)
EqFieldGen(ft) ==
  IF isComparable(ft) THEN Walked(<<>>)
  ELSE CASE Kind(ft) = "Pointer" ->
              IF Kind(TypeTable[ft].elem) = "Named" THEN Walked(<<>>)
              ELSE EqFieldGen(TypeTable[ft].elem)
         [] Kind(ft) = "Array" -> Walked(<<ft>>)
         [] Kind(ft) = "Slice" ->
              IF Kind(TypeTable[ft].elem) = "Basic"
                 /\ TypeTable[TypeTable[ft].elem].name = "byte"
              THEN Walked(<<>>)
              ELSE Walked(<<ft>>)
         [] Kind(ft) = "Map" -> Walked(<<ft>>)
         [] Kind(ft) = "Named" -> Walked(<<>>)
         [] OTHER -> WalkError

\* the switch of genFuncFor
EqFuncGen(typ) ==
  CASE Kind(typ) = "Pointer" ->
         LET ref == TypeTable[typ].elem
             u   == Underlying(ref)
         IN (CASE Kind(u) = "Basic" -> EqFieldGen(typ)
               [] Kind(u) \in {"Slice", "Array", "Map"} -> Walked(<<u>>)
               [] Kind(u) = "Struct" ->
                    WalkAll([i \in 1..Len(TypeTable[u].fields) |->
                               EqFieldGen(TypeTable[u].fields[i])], <<>>)
               [] OTHER -> WalkError)
    [] Kind(typ) \in {"Slice", "Array", "Map"} -> EqFieldGen(TypeTable[typ].elem)
    [] OTHER -> WalkError

RECURSIVE EqRegister(_, _)
EqRegister(m, typs) ==
  IF typs = <<>> THEN m
  ELSE EqRegister(IF EqGet(m, Head(typs)) THEN m
                  ELSE EqSet(m, Head(typs), FALSE), Tail(typs))

\* genFuncFor on the state [m, pr, err] of generateEqual
genFuncFor(typ, st) ==
  LET r == EqFuncGen(typ)
  IN [m   |-> EqRegister(EqSet(st.m, typ, TRUE), r.helpers),
      pr  |-> Append(st.pr, typ),
      err |-> r.err # ""]

\* the loop over the calls of generateEqual
RECURSIVE EqCollectCalls(_, _)
EqCollectCalls(cs, m) ==
  IF cs = <<>> THEN [err |-> FALSE, m |-> m]
  ELSE LET c == Head(cs)
       IN IF ~HasPrefix(c.name, eqFuncPrefix) THEN EqCollectCalls(Tail(cs), m)
          ELSE IF Len(c.args) # 2 THEN [err |-> TRUE, m |-> m]
          ELSE IF ~Identical(c.args[1], c.args[2]) THEN [err |-> TRUE, m |-> m]
          ELSE IF eqFuncPrefix \o typeName(c.args[1]) # c.name
          THEN [err |-> TRUE, m |-> m]
          ELSE EqCollectCalls(Tail(cs), EqSet(m, c.args[1], FALSE))

\* a loop of generateEqual over a list of types; the second loop skips
\* the types whose function was generated
RECURSIVE EqLoop(_, _, _)
EqLoop(typs, skip, st) ==
  IF typs = <<>> \/ st.err THEN st
  ELSE IF skip /\ EqGet(st.m, Head(typs)) THEN EqLoop(Tail(typs), skip, st)
  ELSE EqLoop(Tail(typs), skip, genFuncFor(Head(typs), st))

EqCallMenu ==
  { [name |-> <<"deriveEqual", "PtrTo", "T">>,  args |-> <<8, 9>>],
    [name |-> <<"deriveEqual", "SliceOf", "int">>, args |-> <<10, 10>>],
    [name |-> <<"deriveEqual", "PtrTo", "W">>,  args |-> <<24, 24>>],
    [name |-> <<"deriveEqual", "MapOf", "string", "To", "SliceOf", "int">>,
                                                args |-> <<25, 25>>],
    [name |-> <<"deriveEqual", "SliceOf", "SliceOf", "SliceOf", "int">>,
                                                args |-> <<49, 49>>],
    [name |-> <<"deriveEqual", "int">>,         args |-> <<1, 1>>],
    [name |-> <<"deriveEqual", "PtrTo", "T">>,  args |-> <<8, 10>>],
    [name |-> <<"deriveEqual">>,                args |-> <<9, 9>>],
    [name |-> <<"deriveEqual", "PtrTo", "T">>,  args |-> <<8>>],
    [name |-> <<"foo">>,                        args |-> <<1>>] }

EqInit ==
  /\ eqPc = "collect"
  /\ eqCalls \in [1..NumCalls -> EqCallMenu]
  /\ eqMap = <<>>
  /\ eqPrinter = <<>>

EqCollect ==
  /\ eqPc = "collect"
  /\ LET r == EqCollectCalls(eqCalls, eqMap)
     IN /\ eqMap' = r.m
        /\ eqPc' = IF r.err THEN "error" ELSE "first"
  /\ UNCHANGED <<eqCalls, eqPrinter, dvars, xvars>>

EqFirstLoop ==
  /\ eqPc = "first"
  /\ LET st == EqLoop(EqList(eqMap), FALSE,
                      [m |-> eqMap, pr |-> eqPrinter, err |-> FALSE])
     IN /\ eqMap' = st.m
        /\ eqPrinter' = st.pr
        /\ eqPc' = IF st.err THEN "error" ELSE "second"
  /\ UNCHANGED <<eqCalls, dvars, xvars>>

EqSecondLoop ==
  /\ eqPc = "second"
  /\ LET st == EqLoop(EqList(eqMap), TRUE,
                      [m |-> eqMap, pr |-> eqPrinter, err |-> FALSE])
     IN /\ eqMap' = st.m
        /\ eqPrinter' = st.pr
        /\ eqPc' = IF st.err THEN "error" ELSE "done"
  /\ UNCHANGED <<eqCalls, dvars, xvars>>

(***************************************************************************)
(* Go values, for the meaning of the generated functions.  A value of a    *)
(* basic type is itself (a string is the sequence of its bytes); an array  *)
(* and a struct are the sequences of their elements and fields; a pointer, *)
(* a slice and a map are nil or hold their contents and the allocation     *)
(* they live in ("src": of the caller's argument, "dst": of the caller's   *)
(* destination, "new": made by the generated code).  Values are trees.     *)
(***************************************************************************)
\* deepest nesting of pointers in a value
MaxDepth == 2

IntValues == {0, 1}

StringValues == {<<>>, <<1>>, <<2>>}

Nil == [nil |-> TRUE]

Alloc(at, v) == [nil |-> FALSE, at |-> at, v |-> v]

RECURSIVE Values(_, _, _)
RECURSIVE FieldValues(_, _, _)
\* the sequences of values of the fields fs
FieldValues(fs, at, d) ==
  IF fs = <<>> THEN {<<>>}
  ELSE {<<v>> \o rest : v \in Values(Head(fs), at, d),
                        rest \in FieldValues(Tail(fs), at, d)}

\* the values of type t with pointers nested at most d deep
Values(t, at, d) ==
  CASE Kind(t) = "Basic" ->
         IF TypeTable[t].name = "bool" THEN BOOLEAN
         ELSE IF TypeTable[t].name = "string" THEN StringValues
         ELSE IntValues
    [] Kind(t) = "Pointer" ->
         {Nil} \cup (IF d = 0 THEN {}
                     ELSE {Alloc(at, v) : v \in Values(TypeTable[t].elem, at, d - 1)})
    [] Kind(t) = "Slice" ->
         {Nil} \cup {Alloc(at, v) :
                       v \in UNION {[1..n -> Values(TypeTable[t].elem, at, d)] :
                                      n \in 0..MaxLen}}
    [] Kind(t) = "Array" ->
         [1..TypeTable[t].len -> Values(TypeTable[t].elem, at, d)]
    [] Kind(t) = "Map" ->
         {Nil} \cup {Alloc(at, v) :
                       v \in UNION {[K -> Values(TypeTable[t].elem, at, d)] :
                                      K \in SUBSET Values(TypeTable[t].key, at, d)}}
    [] Kind(t) = "Named" -> Values(TypeTable[t].under, at, d)
    [] Kind(t) = "Struct" -> FieldValues(TypeTable[t].fields, at, d)

\* the zero value of a type
RECURSIVE Zero(_)
Zero(t) ==
  CASE Kind(t) = "Basic" ->
         IF TypeTable[t].name = "bool" THEN FALSE
         ELSE IF TypeTable[t].name = "string" THEN <<>>
         ELSE 0
    [] Kind(t) \in {"Pointer", "Slice", "Map"} -> Nil
    [] Kind(t) = "Array" -> [i \in 1..TypeTable[t].len |-> Zero(TypeTable[t].elem)]
    [] Kind(t) = "Named" -> Zero(TypeTable[t].under)
    [] Kind(t) = "Struct" ->
         [i \in 1..Len(TypeTable[t].fields) |-> Zero(TypeTable[t].fields[i])]

\* structural equality, as reflect.DeepEqual decides it on trees
RECURSIVE DeepEqual(_, _, _)
DeepEqual(t, x, y) ==
  CASE Kind(t) = "Basic" -> x = y
    [] Kind(t) = "Pointer" ->
         IF x.nil \/ y.nil THEN x.nil /\ y.nil
         ELSE DeepEqual(TypeTable[t].elem, x.v, y.v)
    [] Kind(t) = "Slice" ->
         IF x.nil \/ y.nil THEN x.nil /\ y.nil
         ELSE /\ Len(x.v) = Len(y.v)
              /\ \A i \in 1..Len(x.v) : DeepEqual(TypeTable[t].elem, x.v[i], y.v[i])
    [] Kind(t) = "Array" ->
         \A i \in 1..TypeTable[t].len : DeepEqual(TypeTable[t].elem, x[i], y[i])
    [] Kind(t) = "Map" ->
         IF x.nil \/ y.nil THEN x.nil /\ y.nil
         ELSE /\ DOMAIN x.v = DOMAIN y.v
              /\ \A k \in DOMAIN x.v : DeepEqual(TypeTable[t].elem, x.v[k], y.v[k])
    [] Kind(t) = "Named" -> DeepEqual(TypeTable[t].under, x, y)
    [] Kind(t) = "Struct" ->
         \A i \in 1..Len(TypeTable[t].fields) :
            DeepEqual(TypeTable[t].fields[i], x[i], y[i])

(***************************************************************************)
(* The functions the compare generator prints, as functions of values.     *)
(***************************************************************************)
\* strings.Compare
RECURSIVE StringsCompare(_, _)
StringsCompare(a, b) ==
  IF a = <<>> THEN (IF b = <<>> THEN 0 ELSE -1)
  ELSE IF b = <<>> THEN 1
  ELSE IF Head(a) # Head(b) THEN (IF Head(a) < Head(b) THEN -1 ELSE 1)
  ELSE StringsCompare(Tail(a), Tail(b))

\* the bytes of a byte slice: a nil slice has none
Bytes(x) == IF x.nil THEN <<>> ELSE x.v

\* bytes.Compare: a nil argument is equivalent to an empty slice
BytesCompare(x, y) == StringsCompare(Bytes(x), Bytes(y))

\* a numeric comparison that leaves out the test for equality
CmpNumberNoEqual(a, b) == IF a < b THEN -1 ELSE 1

\* the default case of a basic type
CmpNumber(a, b) == IF a # b THEN (IF a < b THEN -1 ELSE 1) ELSE 0

\* the bool case
CmpBool(a, b) == IF a = b THEN 0 ELSE IF b THEN -1 ELSE 1

RECURSIVE CmpFunc(_, _, _)

\* the order the sort plugin gives the keys of a map: the order of the
\* derived comparison of the key type
KeyLess(kt, a, b) ==
  IF Kind(kt) # "Basic" THEN CmpFunc(kt, a, b) < 0
  ELSE IF TypeTable[kt].name = "string" THEN StringsCompare(a, b) < 0
  ELSE IF TypeTable[kt].name = "bool" THEN (~a /\ b)
  ELSE a < b

\* the sorted keys of a map: the keys plugin, then the sort plugin
RECURSIVE SortedKeys(_, _)
SortedKeys(kt, ks) ==
  IF ks = {} THEN <<>>
  ELSE LET m == CHOOSE k \in ks : \A o \in ks \ {k} : KeyLess(kt, k, o)
       IN <<m>> \o SortedKeys(kt, ks \ {m})

IsByteSlice(t) ==
  /\ Kind(t) = "Slice"
  /\ Kind(TypeTable[t].elem) = "Basic"
  /\ TypeTable[TypeTable[t].elem].name = "byte"

RECURSIVE CmpField(_, _, _)
RECURSIVE CmpFields(_, _, _, _)
RECURSIVE CmpElems(_, _, _, _)
RECURSIVE CmpEntries(_, _, _, _, _, _)

\* a Compare method of the user's type, written as the documentation
\* shows a method: a call of the derived function of the pointer type
CompareMethod(pt, a, b) == CmpFunc(pt, a, b)

\* the expression compare.field prints for a field or an element
CmpField(ft, a, b) ==
  CASE Kind(ft) = "Basic" ->
         IF TypeTable[ft].name = "string" THEN StringsCompare(a, b)
         ELSE CmpFunc(ft, a, b)
    [] Kind(ft) = "Pointer" ->
         IF Kind(TypeTable[ft].elem) = "Named"
            /\ hasCompareMethod(TypeTable[ft].elem)
         THEN CompareMethod(ft, a, b)
         ELSE CmpFunc(ft, a, b)
    [] Kind(ft) \in {"Array", "Map"} -> CmpFunc(ft, a, b)
    [] Kind(ft) = "Slice" ->
         IF IsByteSlice(ft) THEN BytesCompare(a, b) ELSE CmpFunc(ft, a, b)
    [] Kind(ft) = "Named" ->
         IF hasCompareMethod(ft)
         THEN CompareMethod(PointerTo(ft), Alloc("src", a), Alloc("src", b))
         ELSE CmpField(PointerTo(ft), Alloc("src", a), Alloc("src", b))

\* the loop over the fields of a struct, from field i on
CmpFields(fs, x, y, i) ==
  IF i > Len(fs) THEN 0
  ELSE LET c == CmpField(fs[i], x[i], y[i])
       IN IF c # 0 THEN c ELSE CmpFields(fs, x, y, i + 1)

\* the loop over the elements of a slice or an array, from index i on
CmpElems(et, xs, ys, i) ==
  IF i > Len(xs) THEN 0
  ELSE LET c == CmpField(et, xs[i], ys[i])
       IN IF c # 0 THEN c ELSE CmpElems(et, xs, ys, i + 1)

\* the loop over the sorted keys of two maps, from index i on
CmpEntries(t, x, y, thiskeys, thatkeys, i) ==
  IF i > Len(thiskeys) THEN 0
  ELSE LET c == IF thiskeys[i] = thatkeys[i]
                THEN CmpField(TypeTable[t].elem, x.v[thiskeys[i]], y.v[thatkeys[i]])
                ELSE CmpField(TypeTable[t].key, thiskeys[i], thatkeys[i])
       IN IF c # 0 THEN c ELSE CmpEntries(t, x, y, thiskeys, thatkeys, i + 1)

\* nil before non-nil, a shorter before a longer
CmpNil(x, y) == IF x.nil THEN (IF y.nil THEN 0 ELSE -1) ELSE 1

\* a length check that puts the longer first
CmpLenLongerFirst(n, m) == IF n < m THEN 1 ELSE -1

CmpLen(n, m) == IF n < m THEN -1 ELSE 1

\* the body compare.genStatement prints for type t
CmpFunc(t, x, y) ==
  CASE Kind(t) = "Pointer" ->
         IF x.nil \/ y.nil THEN CmpNil(x, y)
         ELSE IF Kind(TypeTable[t].elem) # "Named"
         THEN CmpFunc(TypeTable[t].elem, x.v, y.v)
         ELSE CmpFields(TypeTable[Underlying(TypeTable[t].elem)].fields, x.v, y.v, 1)
    [] Kind(t) = "Basic" ->
         IF TypeTable[t].name = "string" THEN StringsCompare(x, y)
         ELSE IF TypeTable[t].name = "bool" THEN CmpBool(x, y)
         ELSE CmpNumber(x, y)
    [] Kind(t) = "Named" ->
         CmpField(PointerTo(t), Alloc("src", x), Alloc("src", y))
    [] Kind(t) = "Slice" ->
         IF x.nil \/ y.nil THEN CmpNil(x, y)
         ELSE IF Len(x.v) # Len(y.v) THEN CmpLen(Len(x.v), Len(y.v))
         ELSE CmpElems(TypeTable[t].elem, x.v, y.v, 1)
    [] Kind(t) = "Array" -> CmpElems(TypeTable[t].elem, x, y, 1)
    [] Kind(t) = "Map" ->
         IF x.nil \/ y.nil THEN CmpNil(x, y)
         ELSE IF Cardinality(DOMAIN x.v) # Cardinality(DOMAIN y.v)
         THEN CmpLen(Cardinality(DOMAIN x.v), Cardinality(DOMAIN y.v))
         ELSE CmpEntries(t, x, y, SortedKeys(TypeTable[t].key, DOMAIN x.v),
                         SortedKeys(TypeTable[t].key, DOMAIN y.v), 1)

\* the types whose comparison is evaluated
CmpTypes == {1, 2, 3, 5, 8, 10, 14, 15, 18, 19, 20}

\* scenario B: the slices of T of length 2, and slices of T of length 3
ScenarioBShort ==
  {Alloc("src", v) : v \in [1..2 -> Values(6, "src", MaxDepth)]}

ScenarioBLong ==
  {Alloc("src", <<e, e, e>>) : e \in Values(6, "src", MaxDepth)}

CmpInit ==
  /\ evalOp = "compare"
  /\ \/ /\ evalTyp \in CmpTypes
        /\ evalX \in Values(evalTyp, "src", MaxDepth)
        /\ evalY \in Values(evalTyp, "src", MaxDepth)
     \/ /\ evalTyp = 31
        /\ evalX \in ScenarioBShort
        /\ evalY \in ScenarioBLong
  /\ evalOut = <<>>

\* deriveCompare(x, y)
CallCompare ==
  /\ evalOp = "compare"
  /\ Len(evalOut) = 0
  /\ evalOut' = <<CmpFunc(evalTyp, evalX, evalY)>>
  /\ UNCHANGED <<evalOp, evalTyp, evalX, evalY, dvars, evars>>

\* deriveCompare(y, x)
CallCompareSwapped ==
  /\ evalOp = "compare"
  /\ Len(evalOut) = 1
  /\ evalOut' = Append(evalOut, CmpFunc(evalTyp, evalY, evalX))
  /\ UNCHANGED <<evalOp, evalTyp, evalX, evalY, dvars, evars>>

CmpNext == CallCompare \/ CallCompareSwapped

\* the test alone: nothing is being generated
CmpOnly == DriverIdle /\ EqIdle /\ CmpInit

SpecCmp == CmpOnly /\ [][CmpNext]_vars

Compared == evalOp = "compare" /\ Len(evalOut) = 2

\* the types of the maps that are compared
MapTypes == {15, 50}

\* two maps of one type; the pointers of the second are the pointers of
\* the first or pointers to other objects
MapInit ==
  /\ evalOp = "compare"
  /\ evalTyp \in MapTypes
  /\ evalX \in Values(evalTyp, "src", MaxDepth)
  /\ evalY \in Values(evalTyp, "src", MaxDepth) \cup Values(evalTyp, "dst", MaxDepth)
  /\ evalOut = <<>>

MapOnly == DriverIdle /\ EqIdle /\ MapInit

SpecMap == MapOnly /\ [][CmpNext]_vars

\* the number of keys the body printed for the map type t reads: the
\* keys of both maps are taken after the nil checks and the length check
MapKeysRead(t, x, y) ==
  IF x.nil \/ y.nil THEN 0
  ELSE IF Cardinality(DOMAIN x.v) # Cardinality(DOMAIN y.v) THEN 0
  ELSE Cardinality(DOMAIN x.v) + Cardinality(DOMAIN y.v)

\* position i of the sorted keys decides: the keys differ, or the keys
\* are one key and its two values do not compare 0
Decides(t, x, y, xs, ys, i) ==
  IF xs[i] # ys[i] THEN TRUE
  ELSE CmpField(TypeTable[t].elem, x.v[xs[i]], y.v[ys[i]]) # 0

\* what the claim gives as the result at a position that decides
DecidedAt(t, x, y, xs, ys, i) ==
  IF xs[i] # ys[i] THEN CmpField(TypeTable[t].key, xs[i], ys[i])
  ELSE CmpField(TypeTable[t].elem, x.v[xs[i]], y.v[ys[i]])

\* C26: the comparison of two maps is 0 for two nil maps, puts a nil map
\* first and the map with fewer entries first without reading a key; two
\* maps of one length are decided at the first position of their sorted
\* keys where the keys differ (by the comparison of the keys) or the
\* values of one key do not compare 0 (by that comparison), and are 0
\* only if no position decides.
C26_MapCompare ==
  (Compared /\ Kind(evalTyp) = "Map") =>
     /\ (evalX.nil /\ evalY.nil) => evalOut = <<0, 0>>
     /\ (evalX.nil /\ ~evalY.nil) => (evalOut[1] < 0 /\ evalOut[2] > 0)
     /\ (~evalX.nil /\ evalY.nil) => (evalOut[1] > 0 /\ evalOut[2] < 0)
     /\ (~evalX.nil /\ ~evalY.nil
           /\ Cardinality(DOMAIN evalX.v) < Cardinality(DOMAIN evalY.v)) =>
           (evalOut[1] < 0 /\ evalOut[2] > 0)
     /\ (evalX.nil \/ evalY.nil
           \/ Cardinality(DOMAIN evalX.v) # Cardinality(DOMAIN evalY.v)) =>
           MapKeysRead(evalTyp, evalX, evalY) = 0
     /\ (~evalX.nil /\ ~evalY.nil
           /\ Cardinality(DOMAIN evalX.v) = Cardinality(DOMAIN evalY.v)) =>
           LET xs == SortedKeys(TypeTable[evalTyp].key, DOMAIN evalX.v)
               ys == SortedKeys(TypeTable[evalTyp].key, DOMAIN evalY.v)
               D  == {i \in 1..Len(xs) : Decides(evalTyp, evalX, evalY, xs, ys, i)}
           IN IF D = {} THEN evalOut[1] = 0
              ELSE LET i == CHOOSE j \in D : \A o \in D : j <= o
                   IN /\ evalOut[1] # 0
                      /\ evalOut[1] = DecidedAt(evalTyp, evalX, evalY, xs, ys, i)

\* the number of elements the loop of the Slice case compares, from index
\* i on: it stops at the first pair that is not equal
RECURSIVE ElemsSeen(_, _, _, _)
ElemsSeen(et, xs, ys, i) ==
  IF i > Len(xs) THEN 0
  ELSE IF CmpField(et, xs[i], ys[i]) # 0 THEN 1
  ELSE 1 + ElemsSeen(et, xs, ys, i + 1)

\* the number of elements the body printed for the slice type t compares
SliceElemsSeen(t, x, y) ==
  IF x.nil \/ y.nil THEN 0
  ELSE IF Len(x.v) # Len(y.v) THEN 0
  ELSE ElemsSeen(TypeTable[t].elem, x.v, y.v, 1)

C8_Reflexive ==
  (Compared /\ DeepEqual(evalTyp, evalX, evalY)) => evalOut = <<0, 0>>

\* C8 case: two structurally equal named structs behind non-nil pointers
\* were compared in both orders.
C8_Witness ==
  /\ Compared
  /\ DeepEqual(evalTyp, evalX, evalY)
  /\ Kind(evalTyp) = "Pointer"
  /\ ~evalX.nil
  /\ Kind(TypeTable[evalTyp].elem) = "Named"

\* C9: the comparisons of two values that are not structurally equal are
\* not 0 and have opposite signs.
C9_Antisymmetric ==
  (Compared /\ ~DeepEqual(evalTyp, evalX, evalY)) =>
     \/ evalOut[1] < 0 /\ evalOut[2] > 0
     \/ evalOut[1] > 0 /\ evalOut[2] < 0

(***************************************************************************)
(* The functions generateEqual prints, as functions of values.             *)
(***************************************************************************)
\* bytes.Equal: a nil argument is equivalent to an empty slice
BytesEqual(x, y) == Bytes(x) = Bytes(y)

BothNil(x, y) == x.nil /\ y.nil

NeitherNil(x, y) == ~x.nil /\ ~y.nil

RECURSIVE EqFunc(_, _, _)
RECURSIVE EqField(_, _, _)

\* an Equal method of the user's type, written as the documentation shows
\* it: a call of the derived function of the pointer type
EqualMethod(pt, a, b) == EqFunc(pt, a, b)

\* the expression equal.field prints for a field or an element
EqField(ft, a, b) ==
  IF isComparable(ft) THEN a = b
  ELSE CASE Kind(ft) = "Pointer" ->
              IF Kind(TypeTable[ft].elem) = "Named" THEN EqualMethod(ft, a, b)
              ELSE \/ BothNil(a, b)
                   \/ NeitherNil(a, b) /\ EqField(TypeTable[ft].elem, a.v, b.v)
         [] Kind(ft) = "Array" -> EqFunc(ft, a, b)
         [] Kind(ft) = "Slice" ->
              IF IsByteSlice(ft) THEN BytesEqual(a, b) ELSE EqFunc(ft, a, b)
         [] Kind(ft) = "Map" -> EqFunc(ft, a, b)
         [] Kind(ft) = "Named" ->
              EqualMethod(PointerTo(ft), Alloc("src", a), Alloc("src", b))

\* the body genFuncFor prints for type t
EqFunc(t, x, y) ==
  CASE Kind(t) = "Pointer" ->
         LET u == Underlying(TypeTable[t].elem)
         IN (CASE Kind(u) = "Basic" -> EqField(t, x, y)
               [] Kind(u) \in {"Slice", "Array", "Map"} ->
                    \/ BothNil(x, y)
                    \/ NeitherNil(x, y) /\ EqFunc(u, x.v, y.v)
               [] Kind(u) = "Struct" ->
                    \/ BothNil(x, y)
                    \/ /\ NeitherNil(x, y)
                       /\ \A i \in 1..Len(TypeTable[u].fields) :
                             EqField(TypeTable[u].fields[i], x.v[i], y.v[i]))
    [] Kind(t) = "Slice" ->
         IF x.nil \/ y.nil THEN BothNil(x, y)
         ELSE /\ Len(x.v) = Len(y.v)
              /\ \A i \in 1..Len(x.v) : EqField(TypeTable[t].elem, x.v[i], y.v[i])
    [] Kind(t) = "Array" ->
         \A i \in 1..TypeTable[t].len : EqField(TypeTable[t].elem, x[i], y[i])
    [] Kind(t) = "Map" ->
         IF x.nil \/ y.nil THEN BothNil(x, y)
         ELSE /\ Cardinality(DOMAIN x.v) = Cardinality(DOMAIN y.v)
              /\ \A k \in DOMAIN x.v :
                    /\ k \in DOMAIN y.v
                    /\ EqField(TypeTable[t].elem, x.v[k], y.v[k])

(***************************************************************************)
(* The functions the copyto generator prints, as functions of values: the  *)
(* value the destination holds afterwards, or how the call ends instead    *)
(* ("panic": a run-time panic; "nofunc": the generator gives an error for  *)
(* a function the printed code calls, so the function is not there).       *)
(***************************************************************************)
Copied(v) == [err |-> "", v |-> v]

Failed(why) == [err |-> why]

\* the first failure among results, "" if there is none
FirstFailure(rs) ==
  IF \E i \in DOMAIN rs : rs[i].err = "panic" THEN "panic"
  ELSE IF \E i \in DOMAIN rs : rs[i].err # "" THEN "nofunc"
  ELSE ""

\* the results of a loop put together
Together(rs) ==
  IF FirstFailure(rs) # "" THEN Failed(FirstFailure(rs))
  ELSE Copied([i \in DOMAIN rs |-> rs[i].v])

\* make([]E, n)
MakeSlice(et, n) == Alloc("new", [i \in 1..n |-> Zero(et)])

\* a length adjustment that takes the source's slice for the destination
ResizedToSource(et, a, d) == a

\* a slice of an array that is longer than the slice: spare holds the
\* elements of the array between len and cap
Spare(at, v, spare) == [nil |-> FALSE, at |-> at, v |-> v, spare |-> spare]

\* the elements of the array of d from its first element up to cap(d); a
\* slice without a spare field has no capacity beyond its length
Backing(d) == IF "spare" \in DOMAIN d THEN d.v \o d.spare ELSE d.v

\* cap(d)
Cap(d) == IF d.nil THEN 0 ELSE Len(Backing(d))

\* (d)[:n]
Reslice(d, n) ==
  IF "spare" \in DOMAIN d
  THEN Spare(d.at, SubSeq(Backing(d), 1, n), SubSeq(Backing(d), n + 1, Cap(d)))
  ELSE Alloc(d.at, SubSeq(d.v, 1, n))

\* the slice a field holds after the length adjustment genField prints
Resized(et, a, d) ==
  IF d.nil THEN MakeSlice(et, Len(a.v))
  ELSE IF Len(a.v) > Len(d.v)
  THEN IF Cap(d) >= Len(a.v) THEN Reslice(d, Len(a.v))
       ELSE MakeSlice(et, Len(a.v))
  ELSE IF Len(a.v) < Len(d.v) THEN Reslice(d, Len(a.v))
  ELSE d

\* copy(d, a) of the builtin
BuiltinCopy(a, d) ==
  IF d.nil \/ a.nil THEN d
  ELSE [d EXCEPT !.v = [i \in 1..Len(d.v) |->
                          IF i <= Len(a.v) THEN a.v[i] ELSE d.v[i]]]

RECURSIVE CopyStmt(_, _, _)
RECURSIVE CopyField(_, _, _)
RECURSIVE CopyFunc(_, _, _)

\* a nil branch that is not printed: thatField keeps what it held
NilFieldKept(d) == Copied(d)

\* the nil branch genField prints for a pointer, a slice and a map:
\* thatField = nil, whatever thatField held
NilField(d) == Copied(Nil)

\* a CopyTo method of the user's type: a call of the derived function
CopyToMethod(pt, a, d) == CopyFunc(pt, a, d)

\* the statements gen.genField prints: what thatField holds afterwards
CopyField(ft, a, d) ==
  IF canCopy(ft) THEN Copied(a)
  ELSE LET typ == Underlying(ft)
       IN CASE Kind(typ) = "Pointer" ->
                 LET ref == TypeTable[typ].elem
                     new == Alloc("new", Zero(ref))
                 IN IF a.nil THEN NilField(d)
                    ELSE IF Kind(ref) = "Named" /\ hasCopyToMethod(ref)
                    THEN CopyToMethod(typ, a, new)
                    ELSE IF canCopy(ref) THEN Copied(Alloc("new", a.v))
                    ELSE CopyFunc(typ, a, new)
            [] Kind(typ) = "Array" -> CopyStmt(ft, a, d)
            [] Kind(typ) = "Slice" ->
                 IF a.nil THEN NilField(d)
                 ELSE IF canCopy(TypeTable[typ].elem)
                 THEN Copied(BuiltinCopy(a, Resized(TypeTable[typ].elem, a, d)))
                 ELSE CopyFunc(typ, a, Resized(TypeTable[typ].elem, a, d))
            [] Kind(typ) = "Map" ->
                 IF a.nil THEN NilField(d)
                 ELSE CopyFunc(typ, a, Alloc("new", <<>>))
            [] Kind(typ) = "Struct" ->
                 LET r == IF Kind(ft) = "Named" /\ hasCopyToMethod(ft)
                          THEN CopyToMethod(PointerTo(ft), Alloc("src", a),
                                            Alloc("new", Zero(ft)))
                          ELSE CopyFunc(ft, a, d)
                 IN IF r.err # "" THEN r
                    ELSE IF Kind(ft) = "Named" /\ hasCopyToMethod(ft)
                    THEN Copied(r.v.v)
                    ELSE Copied(Zero(ft))
            [] OTHER -> Failed("nofunc")

\* what the pointer d points to after the statements with the result r
\* have written through it
Behind(d, r) ==
  IF r.err # "" THEN r ELSE Copied(Alloc(d.at, r.v))

\* the slice d after the loop over the elements of x, r being the
\* results of its turns
IntoSlice(x, d, r) ==
  IF r.err # "" THEN r
  ELSE Copied([d EXCEPT !.v = [i \in 1..Len(d.v) |->
                                 IF i <= Len(x.v) THEN r.v[i] ELSE d.v[i]]])

\* the map d after the loop over the entries of x, r being the results
\* of its turns
IntoMap(x, d, r) ==
  IF r.err # "" THEN r
  ELSE Copied(Alloc(d.at, [k \in DOMAIN d.v \cup DOMAIN x.v |->
                             IF k \in DOMAIN x.v THEN r.v[k] ELSE d.v[k]]))

\* what the caller holds after a function whose statements gave r: only
\* what is written through a pointer, into the elements of a slice or
\* into a map reaches the caller
Returned(t, d, r) ==
  IF r.err # "" THEN r
  ELSE IF Kind(Underlying(t)) \in {"Pointer", "Slice", "Map"} THEN r
  ELSE Copied(d)

\* the statements gen.genStatement prints: what that holds afterwards
CopyStmt(t, x, d) ==
  IF canCopy(t) THEN Copied(x)
  ELSE LET ttyp == Underlying(t)
       IN CASE Kind(ttyp) = "Pointer" ->
                 LET ref == TypeTable[ttyp].elem
                 IN IF Kind(Underlying(ref)) # "Struct"
                    THEN IF x.nil \/ d.nil THEN Failed("panic")
                         ELSE Behind(d, CopyField(ref, x.v, d.v))
                    ELSE IF Kind(ref) # "Named" THEN Failed("nofunc")
                    ELSE IF TypeTable[Underlying(ref)].fields = <<>> THEN Copied(d)
                    ELSE IF x.nil \/ d.nil THEN Failed("panic")
                    ELSE Behind(d, Together(
                           [i \in 1..Len(TypeTable[Underlying(ref)].fields) |->
                              CopyField(TypeTable[Underlying(ref)].fields[i],
                                        x.v[i], d.v[i])]))
            [] Kind(ttyp) = "Slice" ->
                 IF canCopy(TypeTable[ttyp].elem) THEN Copied(BuiltinCopy(x, d))
                 ELSE IF x.nil \/ Len(x.v) = 0 THEN Copied(d)
                 ELSE IF d.nil THEN Failed("panic")
                 ELSE IF Len(d.v) < Len(x.v) THEN Failed("panic")
                 ELSE IntoSlice(x, d, Together([i \in 1..Len(x.v) |->
                                 CopyField(TypeTable[ttyp].elem, x.v[i], d.v[i])]))
            [] Kind(ttyp) = "Array" ->
                 Together([i \in 1..TypeTable[ttyp].len |->
                             CopyField(TypeTable[ttyp].elem, x[i], d[i])])
            [] Kind(ttyp) = "Map" ->
                 IF x.nil \/ DOMAIN x.v = {} THEN Copied(d)
                 ELSE IF d.nil THEN Failed("panic")
                 ELSE IntoMap(x, d, Together([k \in DOMAIN x.v |->
                                 CopyField(TypeTable[ttyp].elem, x.v[k],
                                           IF k \in DOMAIN d.v THEN d.v[k]
                                           ELSE Zero(TypeTable[ttyp].elem))]))
            [] OTHER -> Failed("nofunc")

\* what the caller's destination holds after deriveCopyTo(x, d): that is
\* a parameter, a copy of d
CopyFunc(t, x, d) == Returned(t, d, CopyStmt(t, x, d))

\* the destinations a caller makes for a copy of x: new(T) behind a
\* pointer; a nil slice or a slice of the length of x; a nil or an empty map
FreshDst(t, x) ==
  CASE Kind(t) = "Pointer" -> {Alloc("dst", Zero(TypeTable[t].elem))}
    [] Kind(t) = "Slice" ->
         {Nil, Alloc("dst", [i \in 1..(IF x.nil THEN 0 ELSE Len(x.v)) |->
                               Zero(TypeTable[t].elem)])}
    [] Kind(t) = "Map" -> {Nil, Alloc("dst", <<>>)}

\* the types whose copy is evaluated
CopyTypes == {5, 8, 10, 14, 15, 18, 19, 24, 25, 29, 30}

\* the source of scenario C, map[string][]int{"a": {1, 2}}, the string "a"
\* being <<1>>
ScenarioCSource ==
  Alloc("src", [k \in {<<1>>} |-> Alloc("src", <<1, 2>>)])

CopyInit ==
  /\ evalOp = "copyto"
  /\ evalTyp \in CopyTypes
  /\ evalX \in Values(evalTyp, "src", MaxDepth)
               \cup (IF evalTyp = 25 THEN {ScenarioCSource} ELSE {})
  /\ evalY \in FreshDst(evalTyp, evalX)
  /\ evalOut = <<>>

\* deriveCopyTo(x, dst)
CallCopyTo ==
  /\ evalOp = "copyto"
  /\ Len(evalOut) = 0
  /\ evalOut' = <<CopyFunc(evalTyp, evalX, evalY)>>
  /\ UNCHANGED <<evalOp, evalTyp, evalX, evalY, dvars, evars>>

\* deriveEqual(x, dst) after the copy
CallEqual ==
  /\ evalOp = "copyto"
  /\ Len(evalOut) = 1
  /\ evalOut[1].err = ""
  /\ evalOut' = Append(evalOut, EqFunc(evalTyp, evalX, evalOut[1].v))
  /\ UNCHANGED <<evalOp, evalTyp, evalX, evalY, dvars, evars>>

CopyNext == CallCopyTo \/ CallEqual

\* the copy alone: nothing is being generated
CopyOnly == DriverIdle /\ EqIdle /\ CopyInit

SpecCopy == CopyOnly /\ [][CopyNext]_vars

\* the types whose slices are copied: []int and []*string as the root of
\* the request, and as the fields of S behind *S
SliceTypes == {10, 19, 53}

\* the destinations of a slice of type t: nil, or a slice of n zero
\* elements of an array of n + m elements
SliceDsts(t, n, m) ==
  {Nil, Spare("dst", [i \in 1..n |-> Zero(TypeTable[t].elem)],
                     [i \in 1..m |-> Zero(TypeTable[t].elem)])}

SliceInit ==
  /\ evalOp = "copyto"
  /\ evalTyp \in SliceTypes
  /\ evalX \in Values(evalTyp, "src", MaxDepth)
  /\ \E n \in 0..MaxLen, m \in 0..MaxLen :
        IF Kind(evalTyp) = "Slice" THEN evalY \in SliceDsts(evalTyp, n, m)
        ELSE /\ ~evalX.nil
             /\ evalY \in {Alloc("dst", <<dl, dp>>) :
                            dl \in SliceDsts(10, n, m), dp \in SliceDsts(19, n, m)}
  /\ evalOut = <<>>

SliceOnly == DriverIdle /\ EqIdle /\ SliceInit

SpecSlice == SliceOnly /\ [][CopyNext]_vars

\* the slice r that stands in the place of d after the copy of the slice
\* a has the length of a; it is a new slice if d was nil or too small,
\* and a slice of the array of d otherwise
SliceAdjusted(a, d, r) ==
  \/ a.nil
  \/ /\ ~r.nil
     /\ Len(r.v) = Len(a.v)
     /\ r.at = IF d.nil \/ Cap(d) < Len(a.v) THEN "new" ELSE d.at

\* C27: after the copy of a slice that is not nil, as the root of the
\* request or as a field, the destination has the length of the source,
\* whatever it held and whatever its capacity was: the array of the
\* destination when it is large enough, a new one otherwise; no index
\* beyond the destination is written.
C27_SliceTakesSourceLength ==
  (evalOp = "copyto" /\ Len(evalOut) >= 1 /\ evalTyp \in SliceTypes) =>
     /\ evalOut[1].err = ""
     /\ IF Kind(evalTyp) = "Slice"
        THEN SliceAdjusted(evalX, evalY, evalOut[1].v)
        ELSE \A i \in 1..2 :
                SliceAdjusted(evalX.v[i], evalY.v[i], evalOut[1].v.v[i])

\* C10: deriveCopyTo(x, dst) on a fresh destination is generated and comes
\* back, and the derived equality of x and dst is true afterwards.
C10_CopyThenEqual ==
  (evalOp = "copyto" /\ Len(evalOut) >= 1) =>
     /\ evalOut[1].err = ""
     /\ Len(evalOut) = 2 => evalOut[2]

(***************************************************************************)
(* The expression generateEqual prints, evaluated as Go evaluates it: from *)
(* left to right, && and || leaving their right operand alone when the     *)
(* left one decides, and the dereference of a nil pointer a panic.  The    *)
(* result is "true", "false" or "panic"; an operand is                     *)
(*   [panic |-> TRUE]  or  [panic |-> FALSE, v |-> its value].             *)
(***************************************************************************)
Bool3(b) == IF b THEN "true" ELSE "false"

\* a || b
Or3(a, b) == IF a = "false" THEN b ELSE a

\* a && b
And3(a, b) == IF a = "true" THEN b ELSE a

Operand(v) == [panic |-> FALSE, v |-> v]

Panics == [panic |-> TRUE]

\* *p
Deref(p) == IF p.panic \/ p.v.nil THEN Panics ELSE Operand(p.v.v)

\* p.f, the field i of the struct p points at
FieldOf(p, i) == IF p.panic \/ p.v.nil THEN Panics ELSE Operand(p.v.v[i])

\* p == nil and p != nil
IsNil(p) == IF p.panic THEN "panic" ELSE Bool3(p.v.nil)

NotNil(p) == IF p.panic THEN "panic" ELSE Bool3(~p.v.nil)

\* a guard that asks only whether the left pointer is nil
NilGuardLeft(a, b, deref) ==
  Or3(And3(IsNil(a), IsNil(b)), And3(NotNil(a), deref))

\* ((a == nil && b == nil) || (a != nil && b != nil && deref))
NilGuard(a, b, deref) ==
  Or3(And3(IsNil(a), IsNil(b)), And3(NotNil(a), And3(NotNil(b), deref)))

RECURSIVE EqFieldEval(_, _, _)
RECURSIVE EqEval(_, _, _)

\* the expression equal.field prints, on the operands a and b
EqFieldEval(ft, a, b) ==
  IF isComparable(ft)
  THEN IF a.panic \/ b.panic THEN "panic" ELSE Bool3(a.v = b.v)
  ELSE IF Kind(ft) = "Pointer" /\ Kind(TypeTable[ft].elem) # "Named"
  THEN NilGuard(a, b, EqFieldEval(TypeTable[ft].elem, Deref(a), Deref(b)))
  ELSE IF a.panic \/ b.panic THEN "panic"
  ELSE IF Kind(ft) = "Pointer" THEN EqEval(ft, a.v, b.v)
  ELSE Bool3(EqField(ft, a.v, b.v))

\* the fields of two structs behind pointers, from field i on, joined by &&
RECURSIVE EqFieldsEval(_, _, _, _)
EqFieldsEval(fs, x, y, i) ==
  IF i = Len(fs)
  THEN EqFieldEval(fs[i], FieldOf(Operand(x), i), FieldOf(Operand(y), i))
  ELSE And3(EqFieldEval(fs[i], FieldOf(Operand(x), i), FieldOf(Operand(y), i)),
            EqFieldsEval(fs, x, y, i + 1))

\* the body genFuncFor prints for a pointer type; the loops of the other
\* types dereference nothing
EqEval(t, x, y) ==
  IF Kind(t) = "Pointer" /\ Kind(Underlying(TypeTable[t].elem)) = "Basic"
  THEN EqFieldEval(t, Operand(x), Operand(y))
  ELSE IF Kind(t) = "Pointer" /\ Kind(Underlying(TypeTable[t].elem)) = "Struct"
  THEN LET fs == TypeTable[Underlying(TypeTable[t].elem)].fields
       IN IF fs = <<>>
          THEN Or3(And3(Bool3(x.nil), Bool3(y.nil)),
                   And3(Bool3(~x.nil), Bool3(~y.nil)))
          ELSE Or3(And3(Bool3(x.nil), Bool3(y.nil)),
                   And3(Bool3(~x.nil),
                        And3(Bool3(~y.nil), EqFieldsEval(fs, x, y, 1))))
  ELSE Bool3(EqFunc(t, x, y))

\* the types whose equality is evaluated
EqTypes == {5, 8, 10, 14, 15, 18, 19, 20}

EqEvalInit ==
  /\ evalOp = "equal"
  /\ evalTyp \in EqTypes
  /\ evalX \in Values(evalTyp, "src", MaxDepth)
  /\ evalY \in Values(evalTyp, "src", MaxDepth)
  /\ evalOut = <<>>

\* deriveEqual(x, y)
CallDeriveEqual ==
  /\ evalOp = "equal"
  /\ Len(evalOut) = 0
  /\ evalOut' = <<EqEval(evalTyp, evalX, evalY)>>
  /\ UNCHANGED <<evalOp, evalTyp, evalX, evalY, dvars, evars>>

\* deriveEqual(y, x)
CallDeriveEqualSwapped ==
  /\ evalOp = "equal"
  /\ Len(evalOut) = 1
  /\ evalOut' = Append(evalOut, EqEval(evalTyp, evalY, evalX))
  /\ UNCHANGED <<evalOp, evalTyp, evalX, evalY, dvars, evars>>

EqEvalNext == CallDeriveEqual \/ CallDeriveEqualSwapped

\* the equality alone: nothing is being generated
EqEvalOnly == DriverIdle /\ EqIdle /\ EqEvalInit

SpecEq == EqEvalOnly /\ [][EqEvalNext]_vars

\* scenario A as the specification words it, for x and y of type *T
ScenarioAEqual(x, y) ==
  \/ x.nil /\ y.nil
  \/ /\ ~x.nil /\ ~y.nil
     /\ x.v[1] = y.v[1]
     /\ \/ x.v[2].nil /\ y.v[2].nil
        \/ ~x.v[2].nil /\ ~y.v[2].nil /\ x.v[2].v = y.v[2].v

\* C14: the equality generated for (*T, *T) is true exactly when scenario A
\* says so, false otherwise, and never a nil dereference.
C14_ScenarioA ==
  (evalOp = "equal" /\ evalTyp = 8 /\ Len(evalOut) >= 1) =>
     evalOut[1] = Bool3(ScenarioAEqual(evalX, evalY))

\* C14 case: two *T were compared of which the first holds a string and
\* the second holds none.
C14_Witness ==
  /\ evalOp = "equal" /\ evalTyp = 8 /\ Len(evalOut) >= 1
  /\ ~evalX.nil /\ ~evalY.nil
  /\ evalX.v[1] = evalY.v[1]
  /\ ~evalX.v[2].nil /\ evalY.v[2].nil

(***************************************************************************)
(* Add of the copyto plugin on its own: one request to an empty registry.  *)
(***************************************************************************)
\* the argument types a request may have
AddArgTypes == {1, 3, 6, 8, 9, 10, 15, 20}

MaxArgs == 3

AddInit ==
  /\ evalOp = "add"
  /\ evalTyp = NilType
  /\ evalX \in UNION {[1..n -> AddArgTypes] : n \in 1..MaxArgs}
  /\ evalY = <<>>
  /\ evalOut = <<>>

\* p.Add(call.Name, call.Args), the name being the one goderive gives the
\* function of the first argument's type
CallAdd ==
  /\ evalOp = "add"
  /\ Len(evalOut) = 0
  /\ evalOut' = <<AddCopyTo(NewTypesMap, CanonName("copyto", evalX[1]),
                            evalX, {}, FALSE)>>
  /\ UNCHANGED <<evalOp, evalTyp, evalX, evalY, dvars, evars>>

AddOnly == DriverIdle /\ EqIdle /\ AddInit

SpecAdd == AddOnly /\ [][CallAdd]_vars

\* a type through which the caller's value can be changed
ReferenceCapable(t) == Kind(Underlying(t)) \in {"Pointer", "Slice", "Map"}

\* C16: Add of copyto takes a request exactly when it has two arguments of
\* one type that is a pointer, a slice or a map; any other request is an
\* error and reserves no name.
C16_AddAcceptsReferences ==
  (evalOp = "add" /\ Len(evalOut) = 1) =>
     /\ ~evalOut[1].err <=> /\ Len(evalX) = 2
                            /\ Identical(evalX[1], evalX[2])
                            /\ ReferenceCapable(evalX[1])
     /\ evalOut[1].err => evalOut[1].reg = NewTypesMap

\* the allocations of the value v of type t that carry the tag at
RECURSIVE Reaches(_, _, _)
Reaches(t, v, at) ==
  CASE Kind(t) = "Basic" -> FALSE
    [] Kind(t) = "Pointer" ->
         ~v.nil /\ (v.at = at \/ Reaches(TypeTable[t].elem, v.v, at))
    [] Kind(t) = "Slice" ->
         ~v.nil /\ (v.at = at \/ \E i \in 1..Len(v.v) :
                                   Reaches(TypeTable[t].elem, v.v[i], at))
    [] Kind(t) = "Array" ->
         \E i \in 1..TypeTable[t].len : Reaches(TypeTable[t].elem, v[i], at)
    [] Kind(t) = "Map" ->
         ~v.nil /\ (v.at = at \/ \E k \in DOMAIN v.v :
                                   Reaches(TypeTable[t].elem, v.v[k], at))
    [] Kind(t) = "Named" -> Reaches(TypeTable[t].under, v, at)
    [] Kind(t) = "Struct" ->
         \E i \in 1..Len(TypeTable[t].fields) :
            Reaches(TypeTable[t].fields[i], v[i], at)

\* deriveCopyTo(x, dst) has come back
CopyReturned ==
  evalOp = "copyto" /\ Len(evalOut) >= 1 /\ evalOut[1].err = ""

\* C11: after deriveCopyTo(x, dst) has come back, no pointer target, slice
\* backing array or map reachable from dst is one of the source's.
C11_NoSharedStorage ==
  CopyReturned => ~Reaches(evalTyp, evalOut[1].v, "src")

\* C11 case: a struct with a non-empty slice, non-nil pointers in an array
\* and a non-empty map was copied.
C11_Witness ==
  /\ CopyReturned
  /\ evalTyp = 29
  /\ ~evalX.nil
  /\ ~evalX.v[1].nil /\ Len(evalX.v[1].v) > 0
  /\ ~evalX.v[2][1].nil
  /\ ~evalX.v[3].nil /\ DOMAIN evalX.v[3].v # {}

\* scenario C has been run: the copy of its source into a nil map
ScenarioC ==
  /\ evalOp = "copyto" /\ evalTyp = 25
  /\ evalX = ScenarioCSource /\ evalY = Nil
  /\ Len(evalOut) >= 1

\* C13: scenario C ends without failure, with the destination a new map
\* whose key "a" holds a new slice {1, 2}, none of it the source's.
C13_ScenarioC ==
  ScenarioC =>
     /\ evalOut[1].err = ""
     /\ ~evalOut[1].v.nil
     /\ DeepEqual(25, evalX, evalOut[1].v)
     /\ ~Reaches(25, evalOut[1].v, "src")

\* destinations that have been in use: any value of the type, and for *V
\* one whose every reference holds something
UsedDst(t) ==
  IF t = 29
  THEN {Alloc("dst", <<Alloc("dst", <<1>>),
                       <<Alloc("dst", <<1>>), Alloc("dst", <<1>>)>>,
                       Alloc("dst", [k \in {<<1>>} |-> 1])>>)}
  ELSE Values(t, "dst", MaxDepth)

\* the types copied into destinations that have been in use
RecopyTypes == {8, 14, 19, 29, 30}

RecopyInit ==
  /\ evalOp = "copyto"
  /\ evalTyp \in RecopyTypes
  /\ evalX \in Values(evalTyp, "src", MaxDepth)
  /\ evalY \in UsedDst(evalTyp)
  /\ evalOut = <<>>

\* a copy into a destination that has been in use
RecopyOnly == DriverIdle /\ EqIdle /\ RecopyInit

SpecRecopy == RecopyOnly /\ [][CopyNext]_vars

\* the references of a and of r, part by part, are nil together
RECURSIVE NilAgree(_, _, _)
NilAgree(t, a, r) ==
  CASE Kind(t) = "Basic" -> TRUE
    [] Kind(t) = "Pointer" ->
         /\ a.nil = r.nil
         /\ ~a.nil => NilAgree(TypeTable[t].elem, a.v, r.v)
    [] Kind(t) = "Slice" ->
         /\ a.nil = r.nil
         /\ ~a.nil => /\ Len(a.v) <= Len(r.v)
                      /\ \A i \in 1..Len(a.v) :
                            NilAgree(TypeTable[t].elem, a.v[i], r.v[i])
    [] Kind(t) = "Array" ->
         \A i \in 1..TypeTable[t].len : NilAgree(TypeTable[t].elem, a[i], r[i])
    [] Kind(t) = "Map" ->
         /\ a.nil = r.nil
         /\ ~a.nil => \A k \in DOMAIN a.v :
                         /\ k \in DOMAIN r.v
                         /\ NilAgree(TypeTable[t].elem, a.v[k], r.v[k])
    [] Kind(t) = "Named" -> NilAgree(TypeTable[t].under, a, r)
    [] Kind(t) = "Struct" ->
         \A i \in 1..Len(TypeTable[t].fields) :
            NilAgree(TypeTable[t].fields[i], a[i], r[i])

\* the same below the root: the fields, the elements and the entries
NilAgreeBelow(t, x, r) ==
  CASE Kind(t) = "Pointer" ->
         (~x.nil /\ ~r.nil) => NilAgree(TypeTable[t].elem, x.v, r.v)
    [] Kind(t) = "Slice" ->
         (~x.nil /\ ~r.nil) =>
            \A i \in 1..Len(x.v) :
               i <= Len(r.v) /\ NilAgree(TypeTable[t].elem, x.v[i], r.v[i])
    [] Kind(t) = "Map" ->
         (~x.nil /\ ~r.nil) =>
            \A k \in DOMAIN x.v :
               k \in DOMAIN r.v /\ NilAgree(TypeTable[t].elem, x.v[k], r.v[k])

\* C12: after the copy every pointer, slice and map held in a struct
\* field, a slice element or a map entry of the destination is nil where
\* the source's is nil and not nil where the source's is not.
C12_NilToNil ==
  CopyReturned => NilAgreeBelow(evalTyp, evalX, evalOut[1].v)

\* C12 case: a map entry that is nil in the source and held a pointer in
\* the destination, next to an entry that is not nil, was copied.
C12_Witness ==
  /\ CopyReturned
  /\ evalTyp = 30
  /\ ~evalX.nil /\ ~evalY.nil
  /\ \E k \in DOMAIN evalX.v \cap DOMAIN evalY.v :
        evalX.v[k].nil /\ ~evalY.v[k].nil
  /\ \E k \in DOMAIN evalX.v : ~evalX.v[k].nil

(***************************************************************************)
(* Generate of one plugin on its own: a request for one type is registered *)
(* and the drain loop of main runs until the plugin is done or a walk      *)
(* fails.                                                                  *)
(***************************************************************************)
\* the plugins whose walk is modelled
WalkGenerators == {"compare", "copyto", "gostring"}

\* the root types a request may have
GenTypes == TypeIds \ {InvalidType}

GenInit ==
  /\ evalOp = "generate"
  /\ evalTyp \in GenTypes
  /\ evalX \in WalkGenerators
  /\ evalY = <<>>
  /\ evalOut = <<[tms |-> [g \in {evalX} |->
                            GetFuncName(NewTypesMap, evalX, evalTyp)],
                   pr  |-> <<>>,
                   err |-> ""]>>

\* the drain loop is over: the plugin is done, or Generate has failed
Drained == evalOut[1].err # "" \/ Done(evalOut[1].tms[evalX])

\* one round of the drain loop
DrainRound ==
  /\ evalOp = "generate"
  /\ ~Drained
  /\ evalOut' = <<Generate(evalX, evalOut[1])>>
  /\ UNCHANGED <<evalOp, evalTyp, evalX, evalY, dvars, evars>>

GenOnly == DriverIdle /\ EqIdle /\ GenInit

SpecGen == GenOnly /\ [][DrainRound]_vars

MaxNest == 4

\* a shape the generator g has no code for
UnsupportedShape(g, t) ==
  \/ Kind(t) = "Chan"
  \/ /\ Kind(t) = "Pointer"
     /\ Kind(Underlying(TypeTable[t].elem)) = "Struct"
     /\ Kind(TypeTable[t].elem) # "Named"
  \/ /\ g = "compare"
     /\ Kind(t) = "Pointer"
     /\ Kind(TypeTable[t].elem) = "Named"
     /\ Kind(Underlying(TypeTable[t].elem)) # "Struct"

\* t is such a shape, or holds one within d levels of struct fields, array
\* elements and pointer targets
RECURSIVE HoldsUnsupported(_, _, _)
HoldsUnsupported(g, t, d) ==
  \/ UnsupportedShape(g, t)
  \/ /\ d > 0
     /\ CASE Kind(t) \in {"Pointer", "Array"} ->
               HoldsUnsupported(g, TypeTable[t].elem, d - 1)
          [] Kind(t) = "Named" /\ Kind(Underlying(t)) = "Struct" ->
               \E i \in 1..Len(TypeTable[Underlying(t)].fields) :
                  HoldsUnsupported(g, TypeTable[Underlying(t)].fields[i], d - 1)
          [] OTHER -> FALSE

\* C17: when the type of a request is, or holds in a struct field, an array
\* element or a pointer target, a shape the generator has no code for, the
\* drain loop ends with an error of Generate: it never ends in a panic and
\* never ends with every function printed and no error.
C17_UnsupportedIsError ==
  (evalOp = "generate" /\ Drained /\ HoldsUnsupported(evalX, evalTyp, MaxNest))
     => evalOut[1].err = "error"

(***************************************************************************)
(* What a generator prints for one occurrence of a type, at the root of a  *)
(* request or as a field, an element or a map value:                       *)
(*   "method"  a call of the type's own method                             *)
(*   "derived" a call of the derived function of the type                  *)
(*   "fields"  the fields of the struct, one after the other               *)
(*   "loop"    a loop over elements or entries                             *)
(*   "inline"  an operator or a library call                               *)
(*   "error", "panic"                                                      *)
(***************************************************************************)
RECURSIVE CmpFieldHandles(_)
CmpFieldHandles(ft) ==
  CASE Kind(ft) = "Basic" ->
         IF TypeTable[ft].name = "string" THEN "inline" ELSE "derived"
    [] Kind(ft) = "Pointer" ->
         IF Kind(TypeTable[ft].elem) = "Named" /\ hasCompareMethod(TypeTable[ft].elem)
         THEN "method"
         ELSE "derived"
    [] Kind(ft) \in {"Array", "Map"} -> "derived"
    [] Kind(ft) = "Slice" ->
         IF Kind(TypeTable[ft].elem) = "Basic" /\ TypeTable[TypeTable[ft].elem].name = "byte"
         THEN "inline"
         ELSE "derived"
    [] Kind(ft) = "Named" ->
         IF hasCompareMethod(ft) THEN "method"
         ELSE CmpFieldHandles(PointerTo(ft))
    [] OTHER -> "error"

CmpRootHandles(t) ==
  CASE Kind(t) = "Pointer" ->
         LET ref == TypeTable[t].elem
         IN IF Kind(ref) # "Named" THEN "derived"
            ELSE IF Kind(Underlying(ref)) # "Struct" THEN "panic"
            ELSE "fields"
    [] Kind(t) = "Basic" -> "inline"
    [] Kind(t) = "Named" -> CmpFieldHandles(PointerTo(t))
    [] Kind(t) \in {"Slice", "Array", "Map"} -> "loop"
    [] OTHER -> "error"

CopyFieldHandles(ft) ==
  IF canCopy(ft) THEN "inline"
  ELSE LET typ == Underlying(ft)
       IN CASE Kind(typ) = "Pointer" ->
                 LET ref == TypeTable[typ].elem
                 IN IF Kind(ref) = "Named" /\ hasCopyToMethod(ref) THEN "method"
                    ELSE IF canCopy(ref) THEN "inline"
                    ELSE "derived"
            [] Kind(typ) = "Array" -> "loop"
            [] Kind(typ) = "Slice" ->
                 IF canCopy(TypeTable[typ].elem) THEN "inline" ELSE "derived"
            [] Kind(typ) = "Map" -> "derived"
            [] Kind(typ) = "Struct" ->
                 IF Kind(ft) = "Named" /\ hasCopyToMethod(ft) THEN "method"
                 ELSE "derived"
            [] OTHER -> "error"

CopyRootHandles(t) ==
  IF canCopy(t) THEN "inline"
  ELSE LET ttyp == Underlying(t)
       IN CASE Kind(ttyp) = "Pointer" ->
                 LET ref == TypeTable[ttyp].elem
                 IN IF Kind(Underlying(ref)) # "Struct" THEN CopyFieldHandles(ref)
                    ELSE IF Kind(ref) = "Named" THEN "fields"
                    ELSE "error"
            [] Kind(ttyp) \in {"Slice", "Array", "Map"} -> "loop"
            [] OTHER -> "error"

\* equal.field of the legacy generator
RECURSIVE EqFieldHandles(_)
EqFieldHandles(ft) ==
  IF isComparable(ft) THEN "inline"
  ELSE CASE Kind(ft) = "Pointer" ->
              IF Kind(TypeTable[ft].elem) = "Named" THEN "method"
              ELSE EqFieldHandles(TypeTable[ft].elem)
         [] Kind(ft) \in {"Array", "Map"} -> "derived"
         [] Kind(ft) = "Slice" ->
              IF Kind(TypeTable[ft].elem) = "Basic" /\ TypeTable[TypeTable[ft].elem].name = "byte"
              THEN "inline"
              ELSE "derived"
         [] Kind(ft) = "Named" -> "method"
         [] OTHER -> "error"

\* equal.genFuncFor of the legacy generator
EqRootHandles(t) ==
  CASE Kind(t) = "Pointer" ->
         LET u == Underlying(TypeTable[t].elem)
         IN CASE Kind(u) = "Basic" -> EqFieldHandles(t)
              [] Kind(u) \in {"Slice", "Array", "Map"} -> "derived"
              [] Kind(u) = "Struct" -> "fields"
              [] OTHER -> "error"
    [] Kind(t) \in {"Slice", "Array", "Map"} -> "loop"
    [] OTHER -> "error"

Handles(g, at, t) ==
  CASE g = "compare" -> (IF at = "root" THEN CmpRootHandles(t) ELSE CmpFieldHandles(t))
    [] g = "copyto"  -> (IF at = "root" THEN CopyRootHandles(t) ELSE CopyFieldHandles(t))
    [] g = "equal"   -> (IF at = "root" THEN EqRootHandles(t) ELSE EqFieldHandles(t))

\* the method a user writes for the operation of a generator
MethodOf(g) ==
  CASE g = "compare" -> "Compare"
    [] g = "copyto"  -> "CopyTo"
    [] g = "equal"   -> "Equal"

HandleInit ==
  /\ evalOp = "handle"
  /\ evalTyp \in GenTypes
  /\ evalX \in {"compare", "copyto", "equal"}
  /\ evalY \in {"root", "field"}
  /\ evalOut = <<>>

CallHandle ==
  /\ evalOp = "handle"
  /\ Len(evalOut) = 0
  /\ evalOut' = <<Handles(evalX, evalY, evalTyp)>>
  /\ UNCHANGED <<evalOp, evalTyp, evalX, evalY, dvars, evars>>

HandleOnly == DriverIdle /\ EqIdle /\ HandleInit

SpecHandle == HandleOnly /\ [][CallHandle]_vars

\* the named type an occurrence of type t is about: t itself, or the
\* target of the pointer t; NilType when there is none
NamedOf(t) ==
  CASE Kind(t) = "Named" -> t
    [] Kind(t) = "Pointer" /\ Kind(TypeTable[t].elem) = "Named" -> TypeTable[t].elem
    [] OTHER -> NilType

\* C18: for a named type or a pointer to a named type, at the root of a
\* request and as a field, element or map value alike, the generator
\* prints a call of the type's own method exactly when the type declares
\* the method of the operation.
C18_MethodTakesPrecedence ==
  (evalOp = "handle" /\ Len(evalOut) = 1 /\ NamedOf(evalTyp) # NilType) =>
     (evalOut[1] = "method" <=> HasMethod(NamedOf(evalTyp), MethodOf(evalX)))

(***************************************************************************)
(* The call-site finder on one file of the package.  A call expression is  *)
(*   [fun  |-> "ident" | "selector"       the form of call.Fun            *)
(*    name |-> the identifier                                              *)
(*    def  |-> "none" | "builtin" | "typename" | "func" | "var"            *)
(*                                         what pkgInfo.Uses holds for it  *)
(*    file |-> "" | a file name ]          the file of def.Pos()           *)
(***************************************************************************)
derivedFilename == "derived.gen.go"

MaxNodes == 2

CallExprs ==
  { [fun |-> "selector", name |-> "Println",   def |-> "func",     file |-> ""],
    [fun |-> "ident",    name |-> "deriveNew", def |-> "none",     file |-> ""],
    [fun |-> "ident",    name |-> "len",       def |-> "builtin",  file |-> ""],
    [fun |-> "ident",    name |-> "float64",   def |-> "typename", file |-> ""],
    [fun |-> "ident",    name |-> "MyInt",     def |-> "typename", file |-> "types.go"],
    [fun |-> "ident",    name |-> "helper",    def |-> "func",     file |-> "util.go"],
    [fun |-> "ident",    name |-> "deriveOld", def |-> "func",     file |-> derivedFilename],
    [fun |-> "ident",    name |-> "callback",  def |-> "var",      file |-> "util.go"] }

\* a finder that has seen nothing
NewFinder == [undefined |-> <<>>, derived |-> <<>>, funcNames |-> {}]

\* finder.Visit on a call expression
Visit(f, call) ==
  IF call.fun # "ident" THEN f
  ELSE IF call.def = "none"
  THEN [f EXCEPT !.undefined = Append(@, call)]
  ELSE IF call.def = "builtin" THEN f
  ELSE IF call.file = "" THEN f
  ELSE IF call.file = derivedFilename
  THEN [f EXCEPT !.derived = Append(@, call)]
  ELSE [f EXCEPT !.funcNames = @ \cup {call.name}]

\* NewFileInfos on one file: evalY is the name of the file, evalX its call
\* expressions in the order of the walk, evalTyp the number of them that
\* the walk has visited, evalOut the file infos
FindInit ==
  /\ evalOp = "find"
  /\ evalTyp = 0
  /\ evalX \in UNION {[1..n -> CallExprs] : n \in 1..MaxNodes}
  /\ evalY \in {"main.go", derivedFilename}
  /\ evalOut = <<NewFinder>>

\* a file named derived.gen.go gets no file info
SkipDerivedFile ==
  /\ evalOp = "find"
  /\ evalY = derivedFilename
  /\ Len(evalOut) = 1
  /\ evalOut' = <<>>
  /\ UNCHANGED <<evalOp, evalTyp, evalX, evalY, dvars, evars>>

\* ast.Walk hands the next call expression of the file to the finder
VisitCall ==
  /\ evalOp = "find"
  /\ evalY # derivedFilename
  /\ evalTyp < Len(evalX)
  /\ evalTyp' = evalTyp + 1
  /\ evalOut' = <<Visit(evalOut[1], evalX[evalTyp + 1])>>
  /\ UNCHANGED <<evalOp, evalX, evalY, dvars, evars>>

FindNext == SkipDerivedFile \/ VisitCall

FindOnly == DriverIdle /\ EqIdle /\ FindInit

SpecFind == FindOnly /\ [][FindNext]_vars

\* the call expressions that the walk has visited
Visited == {evalX[i] : i \in 1..evalTyp}

\* the class the finder is to put a call expression in, "" for none
ClassOf(call) ==
  CASE call.fun # "ident"      -> ""
    [] call.def = "none"       -> "undefined"
    [] call.def = "builtin"    -> ""
    [] call.def = "typename"   -> ""
    [] call.file = derivedFilename -> "derived"
    [] OTHER                   -> "user"

InSeq(q, x) == \E i \in 1..Len(q) : q[i] = x

\* C23: every call expression that the finder has visited is in the class
\* of its callee and in no other: undefined, derived or user function
\* name; builtins, type conversions and calls of something that is not a
\* plain identifier are in none.  No call of derived.gen.go is visited.
C23_OneClassPerCall ==
  evalOp = "find" =>
     /\ evalY = derivedFilename => evalTyp = 0
     /\ Len(evalOut) = 1 =>
          \A call \in CallExprs :
             /\ InSeq(evalOut[1].undefined, call)
                  <=> (call \in Visited /\ ClassOf(call) = "undefined")
             /\ InSeq(evalOut[1].derived, call)
                  <=> (call \in Visited /\ ClassOf(call) = "derived")
             /\ call.name \in evalOut[1].funcNames
                  <=> (call \in Visited /\ ClassOf(call) = "user")

Init ==
  \/ DriverInit /\ EqIdle /\ EvalIdle
  \/ DriverIdle /\ EqInit /\ EvalIdle

DriverNext ==
  \/ LoadPass
  \/ Finish
  \/ ClassifyCall
  \/ EndOfFile
  \/ CheckProgress
  \/ GenerateRound
  \/ WriteDerived

EqNext ==
  \/ EqCollect
  \/ EqFirstLoop
  \/ EqSecondLoop

Next == DriverNext \/ EqNext

Spec == Init /\ [][Next]_vars

\* main alone, which goes on as long as it can take a step
DriverOnly == DriverInit /\ EqIdle /\ EvalIdle

FairSpec ==
  /\ DriverOnly
  /\ [][DriverNext]_vars
  /\ WF_vars(DriverNext)

(***************************************************************************)
(* main on a package whose calls are nested in one another: the first      *)
(* argument of a call may be the result of another call of the file, and   *)
(* the type checker infers it exactly when the function of that call is    *)
(* in the derived file that the pass has loaded.                           *)
(***************************************************************************)
NestCalls == 3

NestCallMenu ==
  { [name |-> <<"deriveCompare", "PtrTo", "T">>, args |-> <<8, 9>>],
    [name |-> <<"deriveCompare", "int">>,        args |-> <<1, 1>>],
    [name |-> <<"deriveCompare", "SliceOf", "PtrTo", "string">>,
                                                 args |-> <<19, 19>>],
    [name |-> <<"deriveCopyTo", "PtrTo", "T">>,  args |-> <<8, 8>>] }

\* call i may take the result of call j as its first argument: j is a
\* call of deriveCompare, whose result is an int, and comes later in the
\* list, as the finder visits a call before the calls in its arguments
MayNest(cs, i, j) ==
  \/ j = 0
  \/ /\ j > i
     /\ j <= Len(cs)
     /\ HasPrefix(cs[j].name, GetPrefix("compare"))
     /\ cs[i].args[1] = 1

NestInit ==
  /\ evalOp = "nest"
  /\ autoname = FALSE
  /\ dedup = FALSE
  /\ funcNames = {}
  /\ calls \in [1..NestCalls -> NestCallMenu]
  /\ callNames = [i \in 1..NestCalls |-> calls[i].name]
  /\ pc = "load"
  /\ ungenerated = -1
  /\ idx = 1
  /\ notgenerated = <<>>
  /\ changed = FALSE
  /\ typesmaps = [g \in GenNames |-> NewTypesMap]
  /\ printer = <<>>
  /\ derivedFile = [exists |-> FALSE, funcs |-> <<>>]
  /\ wrotePass = FALSE
  /\ rewrote = FALSE
  /\ addLog = {}
  /\ fatalBy = ""
  /\ fatalLog = <<>>
  /\ evalTyp = NilType
  /\ evalX \in [1..NestCalls -> 0..NestCalls]
  /\ \A i \in 1..NestCalls : MayNest(calls, i, evalX[i])
  /\ evalY \in {"nil", "invalid"}
  /\ evalOut = <<>>

\* the function that call j asks for is in the derived file
Defined(j) ==
  /\ derivedFile.exists
  /\ \E n \in 1..Len(derivedFile.funcs) :
        /\ derivedFile.funcs[n].gen = generators[FirstGenerator(calls[j].name)]
        /\ Identical(derivedFile.funcs[n].typ, calls[j].args[1])

\* what the type checker says of call i in this pass; evalY is what it
\* gives an argument it cannot type, no type at all or the invalid type
NestInference(i) ==
  IF evalX[i] = 0 \/ Defined(evalX[i]) THEN "typed" ELSE evalY

ClassifyNested ==
  /\ idx <= Len(calls)
  /\ Classify(NestInference(idx))

NestOnly == NestInit /\ EqIdle

NestNext ==
  \/ LoadPass
  \/ Finish
  \/ ClassifyNested
  \/ EndOfFile
  \/ CheckProgress
  \/ GenerateRound
  \/ WriteDerived

SpecNest == NestOnly /\ [][NestNext]_vars

\* C19: in a package where a call is unresolved only because the function
\* its argument calls is not generated yet, every pass after the first
\* ends its classification with no unresolved call, however deep the calls
\* are nested.
C19_ResolvedBySecondPass ==
  (evalOp = "nest" /\ pc = "check" /\ ungenerated >= 0)
     => Len(notgenerated) = 0

(***************************************************************************)
(* main in a run that sets the prefix flags: the prefix of one generator   *)
(* may be the prefix of another.                                           *)
(***************************************************************************)
PrefixFlags ==
  { [g \in GenNames |-> DefaultPrefix(g)],
    [g \in GenNames |-> <<"deriveCompare">>],
    [g \in GenNames |-> <<"deriveCopyTo">>] }

FlagsInit ==
  /\ evalOp = "flags"
  /\ evalTyp = NilType
  /\ evalX \in PrefixFlags
  /\ evalY = <<>>
  /\ evalOut = <<>>
  /\ autoname = FALSE
  /\ dedup = FALSE
  /\ funcNames = {}
  /\ calls \in [1..NumCalls -> CallMenu]
  /\ callNames = [i \in 1..NumCalls |-> calls[i].name]
  /\ pc = "load"
  /\ ungenerated = -1
  /\ idx = 1
  /\ notgenerated = <<>>
  /\ changed = FALSE
  /\ typesmaps = [g \in GenNames |-> NewTypesMap]
  /\ printer = <<>>
  /\ derivedFile = [exists |-> FALSE, funcs |-> <<>>]
  /\ wrotePass = FALSE
  /\ rewrote = FALSE
  /\ addLog = {}
  /\ fatalBy = ""
  /\ fatalLog = <<>>

FlagsOnly == FlagsInit /\ EqIdle

SpecFlags == FlagsOnly /\ [][DriverNext]_vars

\* the generators, by their place in the fixed order, whose prefix the
\* name starts with
Matching(name) ==
  {m \in 1..Len(generators) : HasPrefix(name, GetPrefix(generators[m]))}

\* C24: the classification of one call changes the registry of at most
\* one generator and gets a name from the Add of at most one generator,
\* the first in the fixed order whose prefix the call's name starts with,
\* also when several prefixes match; a call whose name starts with no
\* prefix reaches no Add and is appended to the unresolved calls.
C24_FirstMatchingGenerator ==
  [][ (pc = "classify" /\ idx <= Len(calls)) =>
        LET ms == Matching(callNames[idx])
        IN /\ \A g \in GenNames :
                (typesmaps'[g] # typesmaps[g]) =>
                   /\ ms # {}
                   /\ \E m \in ms : /\ g = generators[m]
                                    /\ \A k \in ms : m <= k
           /\ \A r \in addLog' \ addLog :
                /\ ms # {}
                /\ \E m \in ms : /\ r.gen = generators[m]
                                 /\ \A k \in ms : m <= k
           /\ Cardinality(addLog' \ addLog) <= 1
           /\ ms = {} => /\ notgenerated' = Append(notgenerated, idx)
                         /\ UNCHANGED <<typesmaps, addLog, pc, fatalBy>> ]_vars

\* C24 case: a call whose name starts with the prefix of both generators
\* has got its name from the first of them.
C24_Witness ==
  /\ evalOp = "flags"
  /\ GetPrefix("compare") = GetPrefix("copyto")
  /\ \E r \in addLog : r.gen = "compare" /\ Cardinality(Matching(r.name)) = 2

(***************************************************************************)
(* Properties of the driver and of the registry.                           *)
(***************************************************************************)
Terminal == {"done", "fatal", "panic"}

NoDuplicate(pr) ==
  \A i \in 1..Len(pr) : \A j \in 1..Len(pr) :
     (i # j /\ pr[i].gen = pr[j].gen) => ~Identical(pr[i].typ, pr[j].typ)

C3_NoProgressFatal ==
  [][ (pc = "check" /\ pc' # "check") =>
        /\ (Len(notgenerated) > 0 /\ Len(notgenerated) = ungenerated)
              => (pc' = "fatal" /\ fatalBy' = "noprogress")
        /\ ungenerated = -1 => pc' # "fatal" ]_vars

\* C3 case: the run has ended in the no-progress error.
C3_Witness == pc = "fatal" /\ fatalBy = "noprogress" /\ ungenerated > 0

\* C4: main leaves the pass loop without a fatal error only when the last
\* pass left no unresolved call.
C4_DoneMeansResolved ==
  pc = "done" => (notgenerated = <<>> /\ ungenerated = 0 /\ fatalBy = "")

\* C4 case: the loop was left after a pass that had calls to classify and
\* wrote the generated file.
C4_Witness == pc = "done" /\ derivedFile.exists

\* C5: the pass loop ends, whatever the unresolved counts of the passes.
C5_Terminates == <>(pc \in Terminal)

C7_NoRewriteWithoutFlags ==
  (~autoname /\ ~dedup) =>
     /\ ~rewrote
     /\ ~changed
     /\ \A i \in DOMAIN callNames : callNames[i] = calls[i].name

\* C7 case: without the flags a generator returned another name than the
\* call site has, and the run ended there.
C7_Witness ==
  /\ ~autoname /\ ~dedup
  /\ pc = "panic" /\ fatalBy = "rename"

\* C20: a pass after the first that ends with unresolved calls goes past
\* the no-progress test, on to generation and to the next pass, only when
\* its unresolved calls are strictly fewer than the previous pass left; a
\* pass that leaves more does not go on.
C20_AnotherPassOnlyOnDecrease ==
  [][ (pc = "check" /\ pc' = "generate"
       /\ ungenerated >= 0 /\ Len(notgenerated) > 0)
        => Len(notgenerated) < ungenerated ]_vars

\* C21: when the no-progress error is raised, the report names every call
\* that is unresolved in that pass.
C21_ReportNamesEveryCall ==
  (pc = "fatal" /\ fatalBy = "noprogress") =>
     \A i \in 1..Len(notgenerated) :
        \E k \in 1..Len(fatalLog) : fatalLog[k] = notgenerated[i]

\* C22: a call with an argument whose type is missing or invalid is not
\* passed to an Add in that pass and raises no error: it is appended to the
\* unresolved calls of the pass, which are counted at the end of the pass,
\* and the next pass starts over at the first call with none unresolved.
C22_UndefinedIsDeferred ==
  [][ /\ (pc = "classify" /\ idx <= Len(calls)
           /\ NestInference(idx) # "typed")
          => /\ notgenerated' = Append(notgenerated, idx)
             /\ idx' = idx + 1
             /\ pc' = "classify"
             /\ UNCHANGED <<typesmaps, addLog, fatalBy, callNames>>
      /\ (pc = "check" /\ pc' = "generate")
          => ungenerated' = Len(notgenerated)
      /\ (pc = "load" /\ pc' = "classify")
          => (idx' = 1 /\ notgenerated' = <<>>) ]_vars

\* C22 case: a call that was deferred in an earlier pass has been examined
\* again and is resolved.
C22_Witness ==
  /\ evalOp = "nest"
  /\ pc = "check" /\ ungenerated > 0 /\ notgenerated = <<>>

\* C25: when the generation of a pass has ended without an error, every
\* type that a registry holds, be it from an Add or from a body that needs
\* a helper, has its function printed; this holds for main's drain loop
\* and for the two loops of generateEqual.
C25_DrainComplete ==
  /\ pc = "write" =>
        \A g \in GenNames : \A i \in 1..Len(typesmaps[g]) :
           /\ typesmaps[g][i].generated
           /\ \E n \in 1..Len(printer) :
                 /\ printer[n].gen = g
                 /\ Identical(printer[n].typ, typesmaps[g][i].typ)
  /\ eqPc = "done" =>
        \A i \in 1..Len(eqMap) :
           /\ eqMap[i].generated
           /\ \E n \in 1..Len(eqPrinter) : Identical(eqPrinter[n], eqMap[i].typ)

(***************************************************************************)
(* The access to the fields of a named struct in the bodies compare and    *)
(* copyto print for a pointer to it.  A struct is the sequence of its      *)
(* fields, a field being accessible from the generated file or not.        *)
(***************************************************************************)
MaxFields == 4

\* the structs: every sequence of at most MaxFields fields
Structs == UNION {[1..n -> BOOLEAN] : n \in 0..MaxFields}

\* field.Private(): the field is not accessible from the generated file
Private(field) == ~field

\* derive.Fields: the fields in the order of their declaration, and
\* Reflect, set if any field is not accessible
Fields(strct) ==
  [Fields |-> strct, Reflect |-> \E i \in 1..Len(strct) : Private(strct[i])]

\* the expression printed for field i: this.F for a field that is not
\* private, the unsafe pointer into thisv otherwise
FieldName(strct, i) ==
  IF ~Private(Fields(strct).Fields[i]) THEN "direct" ELSE "unsafe"

AccessInit ==
  /\ evalOp = "access"
  /\ evalTyp \in {"compare", "copyto"}
  /\ evalX \in Structs
  /\ evalY = 0
  /\ evalOut = <<>>

\* thisv := reflect.Indirect(reflect.ValueOf(this)), if Reflect is set;
\* copyto prints nothing for a struct without fields
PrintIndirect ==
  /\ evalOp = "access"
  /\ evalY = 0
  /\ evalTyp = "copyto" => Len(Fields(evalX).Fields) > 0
  /\ evalOut' = IF Fields(evalX).Reflect THEN <<"reflect">> ELSE <<>>
  /\ evalY' = 1
  /\ UNCHANGED <<evalOp, evalTyp, evalX, dvars, evars>>

\* one turn of the loop over the fields
PrintFieldAccess ==
  /\ evalOp = "access"
  /\ evalY >= 1
  /\ evalY <= Len(Fields(evalX).Fields)
  /\ evalOut' = Append(evalOut, FieldName(evalX, evalY))
  /\ evalY' = evalY + 1
  /\ UNCHANGED <<evalOp, evalTyp, evalX, dvars, evars>>

AccessNext == PrintIndirect \/ PrintFieldAccess

AccessOnly == DriverIdle /\ EqIdle /\ AccessInit

SpecAccess == AccessOnly /\ [][AccessNext]_vars

\* the accesses to fields printed so far
Accesses == {evalOut[i] : i \in 1..Len(evalOut)} \ {"reflect"}

\* C28: in the body compare or copyto prints for a struct with a field
\* that is not accessible, every field is accessed through the unsafe
\* path; no body holds a direct access and an unsafe access.
C28_UniformAccess ==
  evalOp = "access" =>
     /\ Fields(evalX).Reflect => Accesses \subseteq {"unsafe"}
     /\ ~({"direct", "unsafe"} \subseteq Accesses)

(***************************************************************************)
(* The label of a type as the string it is: the pieces typeName puts       *)
(* together, written one after the other.                                  *)
(***************************************************************************)
\* the text of a piece, cut where another piece of the model ends
Chars(piece) ==
  CASE piece = "ATo" -> <<"A", "To">>
    [] piece = "ToB" -> <<"To", "B">>
    [] piece = "SliceOfint" -> <<"SliceOf", "int">>
    [] OTHER -> <<piece>>

\* the operator + on strings, over all the pieces of a name
RECURSIVE Concat(_)
Concat(pieces) ==
  IF pieces = <<>> THEN <<>>
  ELSE Chars(Head(pieces)) \o Concat(Tail(pieces))

\* the types the label is taken of: built from basic and named types by
\* pointers, arrays, slices and maps
RECURSIVE LabelShape(_)
LabelShape(t) ==
  CASE Kind(t) = "Basic" -> t # InvalidType
    [] Kind(t) = "Named" -> TRUE
    [] Kind(t) \in {"Pointer", "Slice", "Array"} -> LabelShape(TypeTable[t].elem)
    [] Kind(t) = "Map" -> LabelShape(TypeTable[t].key) /\ LabelShape(TypeTable[t].elem)
    [] OTHER -> FALSE

LabelTypes == {t \in TypeIds : LabelShape(t)}

LabelInit ==
  /\ evalOp = "label"
  /\ evalTyp = 0
  /\ evalX \in LabelTypes
  /\ evalY \in LabelTypes
  /\ evalOut = <<>>

\* typeName(x, qual) and typeName(y, qual)
CallTypeName ==
  /\ evalOp = "label"
  /\ evalOut = <<>>
  /\ evalOut' = <<Concat(typeName(evalX)), Concat(typeName(evalY))>>
  /\ UNCHANGED <<evalOp, evalTyp, evalX, evalY, dvars, evars>>

LabelOnly == DriverIdle /\ EqIdle /\ LabelInit

SpecLabel == LabelOnly /\ [][CallTypeName]_vars

\* C29: two types that are not identical have different labels, and two
\* identical types have the same label.
C29_LabelInjective ==
  (evalOp = "label" /\ Len(evalOut) = 2) =>
     (Identical(evalX, evalY) <=> evalOut[1] = evalOut[2])

(***************************************************************************)
(* The compose generator's Add (plugin/compose/compose.go).  An argument   *)
(* is a function type, the sequences of the types of its parameters and    *)
(* of its results, or a type that is not a function.                       *)
(***************************************************************************)
MaxParams == 1

MaxResults == 2

ArgTypes == {"A", "B", "error"}

Signatures ==
  {[sig |-> TRUE, params |-> ps, results |-> rs] :
     ps \in UNION {[1..n -> ArgTypes] : n \in 0..MaxParams},
     rs \in UNION {[1..n -> ArgTypes] : n \in 0..MaxResults}}

\* a type that is not a *types.Signature
NotAFunc == [sig |-> FALSE]

\* derive.IsError
IsError(typ) == typ = "error"

\* types.AssignableTo, between the types of ArgTypes
AssignableTo(b, b2) == b = b2

\* Results().At(i): the result at an index that is out of range panics
ResultAt(sig, i) == IF i \in 1..Len(sig.results) THEN sig.results[i] ELSE "panic"

\* gen.errorType: "" if the two arguments pass, "error" if a check
\* returns an error, "panic" if the code panics
errorType(typs) ==
  IF Len(typs) # 2 THEN "error"
  ELSE LET sig  == typs[1]
           sig2 == typs[2]
       IN IF ~sig.sig THEN "error"
          ELSE IF Len(sig.results) = 0 THEN "error"
          ELSE LET errType == ResultAt(sig, Len(sig.results))
                   bs == SubSeq(sig.results, 1, Len(sig.results) - 1)
               IN IF ~IsError(errType) THEN "error"
                  ELSE IF ~sig2.sig THEN "error"
                  ELSE IF Len(sig2.params) # Len(bs) THEN "error"
                  ELSE IF \E j \in 1..Len(bs) : ~AssignableTo(bs[j], sig2.params[j])
                  THEN "error"
                  ELSE LET errType2 == ResultAt(sig2, Len(sig2.results))
                       IN IF errType2 = "panic" THEN "panic"
                          \* the test is made on errType, not on errType2
                          ELSE IF ~IsError(errType) THEN "error"
                          ELSE ""

\* gen.Add: [err, reg], reg being the registry afterwards
ComposeAdd(reg, typs) ==
  IF Len(typs) # 2 THEN [err |-> "error", reg |-> reg]
  ELSE IF ~typs[1].sig THEN [err |-> "error", reg |-> reg]
  ELSE IF errorType(typs) # "" THEN [err |-> errorType(typs), reg |-> reg]
  ELSE [err |-> "", reg |-> Append(reg, typs)]

ComposeInit ==
  /\ evalOp = "compose"
  /\ evalTyp = 0
  /\ evalX \in [1..2 -> Signatures \cup {NotAFunc}]
  /\ evalY = <<>>
  /\ evalOut = <<>>

\* Add(name, typs) for a call deriveCompose(f, g)
CallComposeAdd ==
  /\ evalOp = "compose"
  /\ evalOut = <<>>
  /\ evalOut' = <<ComposeAdd(evalY, evalX).err>>
  /\ evalY' = ComposeAdd(evalY, evalX).reg
  /\ UNCHANGED <<evalOp, evalTyp, evalX, dvars, evars>>

ComposeOnly == DriverIdle /\ EqIdle /\ ComposeInit

SpecCompose == ComposeOnly /\ [][CallComposeAdd]_vars

\* the last result of a function is error
EndsInError(f) == Len(f.results) > 0 /\ f.results[Len(f.results)] = "error"

\* the second function takes the results of the first that come before
\* its error
Chains(f, g) == g.params = SubSeq(f.results, 1, Len(f.results) - 1)

\* what the documentation of the generator asks of the two arguments
Composable(typs) ==
  /\ typs[1].sig /\ typs[2].sig
  /\ EndsInError(typs[1])
  /\ Chains(typs[1], typs[2])
  /\ EndsInError(typs[2])

\* C30: Add of the compose generator accepts two functions whose last
\* results are errors and of which the second takes the other results of
\* the first; any other request, such as a second function without
\* results or with a last result that is not an error, is rejected with
\* an error: no panic, and no name reserved.
C30_ComposeAddChecks ==
  (evalOp = "compose" /\ Len(evalOut) = 1) =>
     IF Composable(evalX) THEN evalOut[1] = "" /\ evalY = <<evalX>>
     ELSE evalOut[1] = "error" /\ evalY = <<>>

=============================================================================
